---------------------------- MODULE Spec2Model ----------------------------
(***************************************************************************)
(* A model of the zero-sugar lowering passes (pvdz/zero-sugar).            *)
(*                                                                         *)
(* The passes are tree rewrites, so the model keeps a small JavaScript     *)
(* abstract syntax as TLA+ records, translates each pass from its Rust     *)
(* source as an operator over those trees, and runs the lowered trees      *)
(* under a reference evaluator to observe what they do.  Each group of     *)
(* passes has its own specification (SpecFinally, SpecSwitch, ...) whose   *)
(* Init draws an input program from a bounded grammar and whose actions    *)
(* apply the pass and then execute the result.                             *)
(***************************************************************************)
EXTENDS Integers, Sequences, FiniteSets, TLC

VARIABLES
    pc,        \* position of the driver: "input", "lowered", "done"
    state,     \* MapperState: id_counter and continue_targets
    input,     \* the statement handed to the pass
    oracle,    \* outcomes of the opaque calls f() of the program, per name
    lowered,   \* what the pass returned: [action, stmt]
    run        \* the completion of executing the lowered program

vars == <<pc, state, input, oracle, lowered, run>>

---------------------------------------------------------------------------
(* JavaScript values.  Every value is a record of the same shape.          *)

Num(n)   == [ty |-> "number",    v |-> n]
Bool(b)  == [ty |-> "boolean",   v |-> IF b THEN 1 ELSE 0]
Undef    == [ty |-> "undefined", v |-> 0]
Err(n)   == [ty |-> "error",     v |-> n]
RefError == [ty |-> "error",     v |-> 0]
TypeError == [ty |-> "error",    v |-> -1]
\* A string, and an object, which is known by the path it was read from.
Str(s)   == [ty |-> "string",    v |-> s]
Obj(p)   == [ty |-> "object",    v |-> p]

Truthy(v) ==
    CASE v.ty = "number"    -> v.v # 0
      [] v.ty = "boolean"   -> v.v = 1
      [] v.ty = "undefined" -> FALSE
      [] OTHER              -> TRUE

---------------------------------------------------------------------------
(* Abstract syntax.  None stands for an absent optional child.             *)

None == [t |-> "none"]
NoLabel == ""

NumberLiteral(n)     == [t |-> "num", v |-> n]
BooleanLiteral(b)    == [t |-> "bool", b |-> b]
Identifier(n)        == [t |-> "id", name |-> n]
Call(f)              == [t |-> "call", f |-> f]
Binary(op, l, r)     == [t |-> "bin", op |-> op, l |-> l, r |-> r]
Assignment(n, rhs)   == [t |-> "assign", name |-> n, rhs |-> rhs]
StringLiteral(s)     == [t |-> "str", v |-> s]
ArrayExpression(es)  == [t |-> "array", elements |-> es]
StaticMemberExpression(o, p)   == [t |-> "member", object |-> o, property |-> p]
ComputedMemberExpression(o, e) == [t |-> "index", object |-> o, expression |-> e]
CallExpression(callee, args)   == [t |-> "callx", callee |-> callee, arguments |-> args]
\* An assignment to a member expression: me = rhs.
AssignmentMember(me, rhs)      == [t |-> "assign_member", target |-> me, rhs |-> rhs]

ExpressionStatement(e)    == [t |-> "expr", e |-> e]
ReturnStatement(arg)      == [t |-> "return", arg |-> arg]
BreakStatement(label)     == [t |-> "break", label |-> label]
ContinueStatement(label)  == [t |-> "continue", label |-> label]
ThrowStatement(arg)       == [t |-> "throw", arg |-> arg]
BlockStatement(body)      == [t |-> "block", body |-> body]
IfStatement(test, c, a)   == [t |-> "if", test |-> test, cons |-> c, alt |-> a]
WhileStatement(test, b)   == [t |-> "while", test |-> test, stmt |-> b]
DoWhileStatement(b, test) == [t |-> "dowhile", stmt |-> b, test |-> test]
ForStatement(i, test, u, b) ==
    [t |-> "for", init |-> i, test |-> test, update |-> u, stmt |-> b]
LabeledStatement(l, b)    == [t |-> "labeled", label |-> l, stmt |-> b]
WithStatement(o, b)       == [t |-> "with", object |-> o, stmt |-> b]
CatchClause(param, body)  == [t |-> "catch", param |-> param, body |-> body]
\* block: the statements of the try block; h: None or a CatchClause;
\* f: None or the finalizer's BlockStatement.
TryStatement(block, h, f) ==
    [t |-> "try", block |-> block, handler |-> h, finalizer |-> f]
VariableDeclaration(kind, n, init) ==
    [t |-> "decl", kind |-> kind, name |-> n, init |-> init]
FunctionDeclaration(body) == [t |-> "func", body |-> body]
SwitchCase(test, cons)    == [t |-> "case", test |-> test, consequent |-> cons]
SwitchStatement(d, cases) == [t |-> "switch", discriminant |-> d, cases |-> cases]

\* Binding patterns.  A property key is an IdentifierName, or an expression
\* when the property is computed; an array element is None for a hole.
BindingIdentifier(n)      == [t |-> "bid", name |-> n]
IdentifierName(n)         == [t |-> "idname", name |-> n]
BindingProperty(key, value, computed) ==
    [t |-> "prop", key |-> key, value |-> value, computed |-> computed]
ObjectPattern(props, rest)   == [t |-> "objpat", properties |-> props, rest |-> rest]
ArrayPattern(elems, rest)    == [t |-> "arrpat", elements |-> elems, rest |-> rest]
AssignmentPattern(l, r)      == [t |-> "assignpat", left |-> l, right |-> r]
VariableDeclarator(id, init) == [id |-> id, init |-> init]

\* A variable declaration with its list of declarators.  VariableDeclaration
\* above is the declaration of one identifier that the builders create.
VariableDeclarationOf(kind, declarations) ==
    [t |-> "vardecl", kind |-> kind, declarations |-> declarations]

\* The declarators of a variable declaration of either form.
Declarations(s) ==
    IF s.t = "decl" THEN << VariableDeclarator(BindingIdentifier(s.name), s.init) >>
    ELSE s.declarations

\* The left-hand side of a for-in / for-of header that is not a
\* declaration: an identifier, a pattern or a member expression.
AssignmentTargetIdentifier(n) == [t |-> "target_id", name |-> n]
AssignmentTargetPattern(p)    == [t |-> "target_pattern", pattern |-> p]
MemberAssignmentTarget(me)    == [t |-> "target_member", me |-> me]
\* pattern = rhs as an expression.
AssignmentOfPattern(p, rhs)   == [t |-> "assign_pattern", pattern |-> p, rhs |-> rhs]

ForInStatement(left, right, b) ==
    [t |-> "forin", left |-> left, right |-> right, stmt |-> b]
ForOfStatement(left, right, b) ==
    [t |-> "forof", left |-> left, right |-> right, stmt |-> b]

\* Functions, arrows and classes.
\* oxc's Function: params are the binding patterns of the formal
\* parameters, body the statements of the function body.
Function(params, body)      == [t |-> "function", params |-> params, body |-> body]
FunctionDeclarationOf(f)    == [t |-> "funcdecl", function |-> f]
FunctionExpression(f)       == [t |-> "funcx", function |-> f]
\* expression: the body is the single expression statement of `x => e`.
ArrowExpression(params, body, expression) ==
    [t |-> "arrow", params |-> params, body |-> body, expression |-> expression]
Class(super_class, body)    == [t |-> "class", super_class |-> super_class, body |-> body]
ClassDeclaration(c)         == [t |-> "classdecl", class |-> c]
ClassExpression(c)          == [t |-> "classx", class |-> c]
MethodDefinition(value)     == [t |-> "method", value |-> value]
StaticBlock(body)           == [t |-> "static_block", body |-> body]
PropertyDefinition(value)   == [t |-> "property", value |-> value]

---------------------------------------------------------------------------
(* Reference evaluator of the statement subset (spec section 8, property   *)
(* 6).  An execution state holds the declared variables, the trace of      *)
(* opaque calls made so far, the remaining oracle and the loop fuel.       *)

ExecState(env, tr, orc, fuel) ==
    [env |-> env, tr |-> tr, orc |-> orc, fuel |-> fuel]

Ok(v, st)     == [ok |-> TRUE,  v |-> v, st |-> st]
Raised(v, st) == [ok |-> FALSE, v |-> v, st |-> st]

Declare(st, n, v) ==
    [st EXCEPT !.env = [x \in (DOMAIN st.env) \cup {n} |->
                           IF x = n THEN v ELSE st.env[x]]]

\* An opaque call f(): logs f, consumes the next outcome the oracle holds
\* for f, and throws it when it is an error value.  Without an outcome left
\* the call returns undefined.
EvalCallOutcome(out, st) ==
    IF out.ty = "error" THEN Raised(out, st) ELSE Ok(out, st)

EvalCallWith(f, st, has) ==
    EvalCallOutcome(IF has THEN Head(st.orc[f]) ELSE Undef,
                    [st EXCEPT !.tr = Append(@, f),
                               !.orc = IF has THEN [@ EXCEPT ![f] = Tail(@)] ELSE @])

EvalCall(f, st) ==
    EvalCallWith(f, st, f \in DOMAIN st.orc /\ Len(st.orc[f]) > 0)

\* The name of the property a value selects as a key.
PropertyName(v) ==
    CASE v.ty = "string" -> v.v
      [] v.ty = "number" -> ToString(v.v)
      [] OTHER           -> v.ty

\* Reading property key of a value.  Reading from undefined throws; an
\* object logs the read and yields what the oracle's heap holds at that
\* path, or else the object known by the path; other values have no
\* properties.
GetValue(v, key, st) ==
    CASE v.ty = "undefined" -> Raised(TypeError, st)
      [] v.ty = "object" ->
            Ok(IF "heap" \in DOMAIN st.orc /\ (v.v \o "." \o key) \in DOMAIN st.orc.heap
               THEN st.orc.heap[v.v \o "." \o key]
               ELSE Obj(v.v \o "." \o key),
               [st EXCEPT !.tr = Append(@, "get " \o v.v \o "." \o key)])
      [] OTHER -> Ok(Undef, st)

\* Writing property key of a value: logged; throws on undefined.
PutValue(v, key, st) ==
    IF v.ty = "undefined" THEN Raised(TypeError, st)
    ELSE Ok(Undef, [st EXCEPT !.tr = Append(@, "set " \o PropertyName(v) \o "." \o key)])

BinaryValue(op, a, b) ==
    CASE op = "===" -> Bool(a.ty = b.ty /\ a.v = b.v)
      [] op = "<="  -> Bool(a.ty = "number" /\ b.ty = "number" /\ a.v <= b.v)

RECURSIVE Eval(_, _)
RECURSIVE EvalOperands(_, _)

\* The subexpressions of an expression that are evaluated before it, in the
\* order of their evaluation.
Operands(e) ==
    CASE e.t = "bin"    -> << e.l, e.r >>
      [] e.t = "assign" -> << e.rhs >>
      [] e.t = "array"  -> e.elements
      [] e.t = "member" -> << e.object >>
      [] e.t = "index"  -> << e.object, e.expression >>
      [] e.t = "assign_member" /\ e.target.t = "member" ->
            << e.target.object, e.rhs >>
      [] e.t = "assign_member" /\ e.target.t = "index" ->
            << e.target.object, e.target.expression, e.rhs >>
      [] e.t = "callx" /\ e.callee.t = "member" ->
            << e.callee.object >> \o e.arguments
      [] e.t = "callx" /\ e.callee.t # "member" -> e.arguments
      [] OTHER -> <<>>

\* The outcome of evaluating a list of operands: their values, or the error
\* the first failing one raised.
Operated(ok, v, vs, st) == [ok |-> ok, v |-> v, vs |-> vs, st |-> st]

EvalOperandsRest(h, r) ==
    IF ~r.ok THEN r ELSE Operated(TRUE, Undef, << h.v >> \o r.vs, r.st)

EvalOperandsFrom(es, h) ==
    IF ~h.ok THEN Operated(FALSE, h.v, <<>>, h.st)
    ELSE EvalOperandsRest(h, EvalOperands(Tail(es), h.st))

EvalOperands(es, st) ==
    IF es = <<>> THEN Operated(TRUE, Undef, <<>>, st)
    ELSE EvalOperandsFrom(es, Eval(Head(es), st))

\* An assignment to a member: the write is logged; its value is the
\* right-hand side, the last operand.
EvalMemberWrite(e, r, w) ==
    IF ~w.ok THEN w ELSE Ok(r.vs[Len(r.vs)], w.st)

\* The expression itself, its operands being evaluated.  A call f(args) or
\* o.m(args) is the opaque call named f or m; a method of undefined throws.
EvalApply(e, r) ==
    IF ~r.ok THEN Raised(r.v, r.st)
    ELSE
    CASE e.t = "num"  -> Ok(Num(e.v), r.st)
      [] e.t = "bool" -> Ok(Bool(e.b), r.st)
      [] e.t = "str"  -> Ok(Str(e.v), r.st)
      [] e.t = "id"   ->
            IF e.name = "undefined" THEN Ok(Undef, r.st)
            ELSE IF e.name \in DOMAIN r.st.env THEN Ok(r.st.env[e.name], r.st)
            ELSE Raised(RefError, r.st)
      [] e.t = "call" -> EvalCall(e.f, r.st)
      [] e.t = "bin"  -> Ok(BinaryValue(e.op, r.vs[1], r.vs[2]), r.st)
      [] e.t = "assign" ->
            IF e.name \notin DOMAIN r.st.env THEN Raised(RefError, r.st)
            ELSE Ok(r.vs[1], Declare(r.st, e.name, r.vs[1]))
      [] e.t = "array"  -> Ok(Obj("array"), r.st)
      [] e.t = "member" -> GetValue(r.vs[1], e.property, r.st)
      [] e.t = "index"  -> GetValue(r.vs[1], PropertyName(r.vs[2]), r.st)
      [] e.t = "assign_member" ->
            EvalMemberWrite(e, r,
                PutValue(r.vs[1],
                         IF e.target.t = "member" THEN e.target.property
                         ELSE PropertyName(r.vs[2]),
                         r.st))
      [] e.t = "callx" ->
            IF e.callee.t # "member" THEN EvalCall(e.callee.name, r.st)
            ELSE IF r.vs[1].ty = "undefined" THEN Raised(TypeError, r.st)
            ELSE EvalCall(e.callee.property, r.st)

Eval(e, st) == EvalApply(e, EvalOperands(Operands(e), st))

---------------------------------------------------------------------------
(* Binding the names of a pattern from a value: a list of tasks worked off *)
(* from the front, each one replaced by the tasks it leads to.             *)

PatternTask(p, v)     == [k |-> "pattern", p |-> p, v |-> v, i |-> 0]
PropertyTask(prop, v) == [k |-> "property", p |-> prop, v |-> v, i |-> 0]
ElementTask(p, v, i)  == [k |-> "element", p |-> p, v |-> v, i |-> i]
\* The rest of pattern p: $rest(..) of an object, slice(..) of an array.
RestTask(p, v)        == [k |-> "rest", p |-> p, v |-> v, i |-> 0]

Bound(ok, v, st, tasks) == [ok |-> ok, v |-> v, st |-> st, tasks |-> tasks]

RestTasks(p, v) == IF p.rest = None THEN <<>> ELSE << RestTask(p, v) >>

\* What a read or an evaluation r leads to: pattern p bound from its value.
BindFrom(p, r) ==
    Bound(r.ok, r.v, r.st, IF r.ok THEN << PatternTask(p, r.v) >> ELSE <<>>)

BindPatternTask(p, v, st) ==
    CASE p.t = "bid" -> Bound(TRUE, v, Declare(st, p.name, v), <<>>)
      [] p.t = "assignpat" ->
            BindFrom(p.left, IF v.ty = "undefined" THEN Eval(p.right, st)
                             ELSE Ok(v, st))
      [] p.t \in {"objpat", "arrpat"} /\ v.ty = "undefined" ->
            Bound(FALSE, TypeError, st, <<>>)
      [] p.t = "objpat" /\ v.ty # "undefined" ->
            Bound(TRUE, v, st,
                  [i \in 1..Len(p.properties) |-> PropertyTask(p.properties[i], v)]
                  \o RestTasks(p, v))
      [] p.t = "arrpat" /\ v.ty # "undefined" ->
            Bound(TRUE, v, st,
                  SelectSeq([i \in 1..Len(p.elements) |->
                                ElementTask(p.elements[i], v, i - 1)],
                            LAMBDA task : task.p # None)
                  \o RestTasks(p, v))

\* A property: its key, then the read.
BindPropertyRead(prop, v, k) ==
    IF ~k.ok THEN Bound(FALSE, k.v, k.st, <<>>)
    ELSE BindFrom(prop.value, GetValue(v, PropertyName(k.v), k.st))

BindTask(task, st) ==
    CASE task.k = "pattern"  -> BindPatternTask(task.p, task.v, st)
      [] task.k = "property" ->
            BindPropertyRead(task.p, task.v,
                IF task.p.computed THEN Eval(task.p.key, st)
                ELSE Ok(Str(task.p.key.name), st))
      [] task.k = "element"  ->
            BindFrom(task.p, GetValue(task.v, ToString(task.i), st))
      [] task.k = "rest" ->
            BindFrom(task.p.rest,
                     EvalCall(IF task.p.t = "objpat" THEN "$rest" ELSE "slice", st))

RECURSIVE BindTasks(_, _)
BindTasksFrom(tasks, b) ==
    IF ~b.ok THEN Raised(b.v, b.st)
    ELSE BindTasks(b.tasks \o Tail(tasks), b.st)

BindTasks(tasks, st) ==
    IF tasks = <<>> THEN Ok(Undef, st)
    ELSE BindTasksFrom(tasks, BindTask(Head(tasks), st))

\* Binding the names of pattern p from value v.
BindingInitialization(p, v, st) == BindTasks(<< PatternTask(p, v) >>, st)

Completion(k, v, l, st) == [k |-> k, v |-> v, l |-> l, st |-> st]
Normal(st) == Completion("normal", Undef, NoLabel, st)
Throws(v, st) == Completion("throw", v, NoLabel, st)

RECURSIVE Exec(_, _, _)
RECURSIVE ExecSeq(_, _)
RECURSIVE ExecLoop(_, _, _, _, _, _)
RECURSIVE ExecCases(_, _, _)

\* One declarator: `x` alone declares undefined, otherwise the initializer
\* is evaluated and the pattern bound from it.
ExecDeclaratorInit(d, r) ==
    IF ~r.ok THEN r ELSE BindingInitialization(d.id, r.v, r.st)

ExecDeclarator(d, st) ==
    IF d.init = None THEN Ok(Undef, Declare(st, d.id.name, Undef))
    ELSE ExecDeclaratorInit(d, Eval(d.init, st))

RECURSIVE ExecDeclarators(_, _)
ExecDeclaratorsRest(ds, r) ==
    IF ~r.ok THEN Throws(r.v, r.st) ELSE ExecDeclarators(Tail(ds), r.st)

ExecDeclarators(ds, st) ==
    IF ds = <<>> THEN Normal(st)
    ELSE ExecDeclaratorsRest(ds, ExecDeclarator(Head(ds), st))

ExecSeqRest(body, c) ==
    IF c.k # "normal" THEN c ELSE ExecSeq(Tail(body), c.st)

\* The statements of a list in order, stopping at the first abrupt one.
ExecSeq(body, st) ==
    IF body = <<>> THEN Normal(st)
    ELSE ExecSeqRest(body, Exec(Head(body), st, {}))

ExecLoopUpdate(test, stmt, update, labels, u) ==
    IF ~u.ok THEN Throws(u.v, u.st)
    ELSE ExecLoop(test, stmt, update, labels, FALSE, u.st)

ExecLoopBody(test, stmt, update, labels, c) ==
    IF c.k = "break" /\ c.l = NoLabel THEN Normal(c.st)
    ELSE IF c.k = "normal"
            \/ (c.k = "continue" /\ (c.l = NoLabel \/ c.l \in labels))
    THEN ExecLoopUpdate(test, stmt, update, labels,
                        IF update = None THEN Ok(Undef, c.st)
                        ELSE Eval(update, c.st))
    ELSE c

ExecLoopTest(test, stmt, update, labels, t) ==
    IF ~t.ok THEN Throws(t.v, t.st)
    ELSE IF ~Truthy(t.v) THEN Normal(t.st)
    ELSE IF t.st.fuel = 0 THEN Completion("diverge", Undef, NoLabel, t.st)
    ELSE ExecLoopBody(test, stmt, update, labels,
                      Exec(stmt, [t.st EXCEPT !.fuel = @ - 1], {}))

\* A loop: test (skipped in the first round of a do-while), body, update.
\* An unlabeled break leaves it; a continue that is unlabeled or names one
\* of the loop's own labels goes on with the update.  A run that would
\* enter a loop body with no fuel left is cut off as "diverge".
ExecLoop(test, stmt, update, labels, skip, st) ==
    ExecLoopTest(test, stmt, update, labels,
                 IF skip \/ test = None THEN Ok(Bool(TRUE), st)
                 ELSE Eval(test, st))

ExecCasesRest(cases, i, c) ==
    IF c.k # "normal" THEN c ELSE ExecCases(cases, i + 1, c.st)

\* The consequents of the cases from index i on, in source order.
ExecCases(cases, i, st) ==
    IF i > Len(cases) THEN Normal(st)
    ELSE ExecCasesRest(cases, i, ExecSeq(cases[i].consequent, st))

RECURSIVE MatchCase(_, _, _, _)
MatchCaseTest(cases, i, d, r) ==
    IF ~r.ok THEN [ok |-> FALSE, v |-> r.v, st |-> r.st, idx |-> 0]
    ELSE IF r.v = d THEN [ok |-> TRUE, v |-> Undef, st |-> r.st, idx |-> i]
    ELSE MatchCase(cases, i + 1, d, r.st)

\* The first case from index i on whose test is strictly equal to d; tests
\* are evaluated in source order and the default is skipped.
MatchCase(cases, i, d, st) ==
    IF i > Len(cases) THEN [ok |-> TRUE, v |-> Undef, st |-> st, idx |-> 0]
    ELSE IF cases[i].test = None THEN MatchCase(cases, i + 1, d, st)
    ELSE MatchCaseTest(cases, i, d, Eval(cases[i].test, st))

DefaultIndex(cases) ==
    IF \E i \in 1..Len(cases) : cases[i].test = None
    THEN CHOOSE i \in 1..Len(cases) : cases[i].test = None
    ELSE 0

\* An expression evaluated for its effects, or for the value to declare,
\* return or throw.
ExecExpression(r) == IF r.ok THEN Normal(r.st) ELSE Throws(r.v, r.st)

ExecDeclaration(s, r) ==
    IF r.ok THEN Normal(Declare(r.st, s.name, r.v)) ELSE Throws(r.v, r.st)

ExecReturn(r) ==
    IF r.ok THEN Completion("return", r.v, NoLabel, r.st) ELSE Throws(r.v, r.st)

ExecThrow(r) == Throws(r.v, r.st)

ExecIf(s, r) ==
    IF ~r.ok THEN Throws(r.v, r.st)
    ELSE IF Truthy(r.v) THEN Exec(s.cons, r.st, {})
    ELSE IF s.alt = None THEN Normal(r.st)
    ELSE Exec(s.alt, r.st, {})

ExecFor(s, labels, i) ==
    IF i.k # "normal" THEN i
    ELSE ExecLoop(s.test, s.stmt, s.update, labels, FALSE, i.st)

ExecLabeled(s, c) ==
    IF c.k = "break" /\ c.l = s.label THEN Normal(c.st) ELSE c

ExecWith(s, r) ==
    IF ~r.ok THEN Throws(r.v, r.st) ELSE Exec(s.stmt, r.st, {})

\* try: the block; the handler when the block threw and there is one; the
\* finalizer, whose abrupt completion replaces the one reached before.
ExecTryFinally(h, f) ==
    IF f.k # "normal" THEN f ELSE Completion(h.k, h.v, h.l, f.st)

ExecTryFinalizer(s, h) ==
    IF s.finalizer = None THEN h
    ELSE ExecTryFinally(h, ExecSeq(s.finalizer.body, h.st))

ExecTryHandler(s, b) ==
    ExecTryFinalizer(s,
        IF b.k = "throw" /\ s.handler # None
        THEN ExecSeq(s.handler.body,
                     IF s.handler.param = NoLabel THEN b.st
                     ELSE Declare(b.st, s.handler.param, b.v))
        ELSE b)

\* switch: the discriminant; the tests up to the first match; the
\* consequents from the match, or else from the default, on.
ExecSwitchFrom(s, m) == IF m.idx # 0 THEN m.idx ELSE DefaultIndex(s.cases)

ExecSwitchCases(m, c) ==
    IF ~m.ok THEN Throws(m.v, m.st)
    ELSE IF c.k = "break" /\ c.l = NoLabel THEN Normal(c.st)
    ELSE c

ExecSwitchMatch(s, m) ==
    ExecSwitchCases(m,
        IF ExecSwitchFrom(s, m) = 0 THEN Normal(m.st)
        ELSE ExecCases(s.cases, ExecSwitchFrom(s, m), m.st))

ExecSwitch(s, d) ==
    IF ~d.ok THEN Throws(d.v, d.st)
    ELSE ExecSwitchMatch(s, MatchCase(s.cases, 1, d.v, d.st))

Exec(s, st, labels) ==
    CASE s.t = "expr" -> ExecExpression(Eval(s.e, st))
      [] s.t = "decl" ->
            IF s.init = None THEN Normal(Declare(st, s.name, Undef))
            ELSE ExecDeclaration(s, Eval(s.init, st))
      [] s.t = "vardecl" -> ExecDeclarators(s.declarations, st)
      [] s.t = "return" ->
            IF s.arg = None THEN Completion("return", Undef, NoLabel, st)
            ELSE ExecReturn(Eval(s.arg, st))
      [] s.t = "break"    -> Completion("break", Undef, s.label, st)
      [] s.t = "continue" -> Completion("continue", Undef, s.label, st)
      [] s.t = "throw" -> ExecThrow(Eval(s.arg, st))
      [] s.t = "block" -> ExecSeq(s.body, st)
      [] s.t = "if" -> ExecIf(s, Eval(s.test, st))
      [] s.t = "while" -> ExecLoop(s.test, s.stmt, None, labels, FALSE, st)
      [] s.t = "dowhile" ->
            ExecLoop(s.test, s.stmt, None, labels, TRUE, st)
      [] s.t = "for" ->
            ExecFor(s, labels,
                    IF s.init = None THEN Normal(st)
                    ELSE IF s.init.t = "decl" THEN Exec(s.init, st, {})
                    ELSE Exec(ExpressionStatement(s.init), st, {}))
      [] s.t = "labeled" ->
            ExecLabeled(s, Exec(s.stmt, st, labels \cup {s.label}))
      [] s.t = "with" -> ExecWith(s, Eval(s.object, st))
      [] s.t = "try" -> ExecTryHandler(s, ExecSeq(s.block, st))
      [] s.t = "switch" -> ExecSwitch(s, Eval(s.discriminant, st))
      [] s.t = "func"  -> Normal(st)

---------------------------------------------------------------------------
(* MapperState (mapper_state.rs).                                          *)

\* next_ident_name: "$zeroSugar" followed by the counter, which is then
\* incremented.
next_ident_name(st) ==
    [name  |-> "$zeroSugar" \o ToString(st.id_counter),
     state |-> [st EXCEPT !.id_counter = @ + 1]]

InitialMapperState == [id_counter |-> 0, continue_targets |-> <<>>]

---------------------------------------------------------------------------
(* Builders used by the passes (builder.rs).                               *)

create_assignment_expression_name(name, rhs) == Assignment(name, rhs)
create_expression_statement(e) == ExpressionStatement(e)
create_variable_declaration_let(name, init) == VariableDeclaration("let", name, init)
create_variable_declaration_const(name, init) == VariableDeclaration("const", name, init)

IndexOf(seq, x) ==
    IF \E i \in 1..Len(seq) : seq[i] = x
    THEN (CHOOSE i \in 1..Len(seq) : seq[i] = x /\ \A j \in 1..(i - 1) : seq[j] # x) - 1
    ELSE -1

Contains(seq, x) == \E i \in 1..Len(seq) : seq[i] = x

---------------------------------------------------------------------------
(* The try/finally pass (stmt_finally.rs).                                 *)

THROW_ACTION_ID == 1
RETURN_ACTION_ID == 2
BREAK_ACTION_ID_OFFSET == 3

RECURSIVE abrupt_escape_analysis_statement(_, _, _)
RECURSIVE abrupt_escape_analysis_in_block_body(_, _, _)

\* The analysis returns whether the statement escapes (r) and the target
\* labels collected so far (tl).  `result = result || analysis(stmt)`
\* short-circuits: after the first escaping statement the rest of the block
\* is not analysed.
abrupt_escape_analysis_in_block_body(block, local_labels, target_labels) ==
    IF block = <<>> THEN [r |-> FALSE, tl |-> target_labels]
    ELSE LET h == abrupt_escape_analysis_statement(Head(block), local_labels, target_labels)
         IN  IF h.r THEN h
             ELSE abrupt_escape_analysis_in_block_body(Tail(block), local_labels, h.tl)

abrupt_escape_analysis_statement(stmt, local_labels, target_labels) ==
    CASE stmt.t = "return" -> [r |-> TRUE, tl |-> target_labels]
      [] stmt.t = "throw"  -> [r |-> FALSE, tl |-> target_labels]
      [] stmt.t = "break"  ->
            LET label == IF stmt.label = NoLabel THEN "#looped" ELSE stmt.label
            IN  IF Contains(local_labels, label)
                THEN [r |-> FALSE, tl |-> target_labels]
                ELSE [r  |-> TRUE,
                      tl |-> IF Contains(target_labels, label) THEN target_labels
                             ELSE Append(target_labels, label)]
      [] stmt.t = "block"  ->
            abrupt_escape_analysis_in_block_body(stmt.body, local_labels, target_labels)
      [] stmt.t = "if" ->
            LET c == abrupt_escape_analysis_statement(stmt.cons, local_labels, target_labels)
            IN  IF c.r THEN c
                ELSE IF stmt.alt = None THEN [r |-> FALSE, tl |-> c.tl]
                ELSE abrupt_escape_analysis_statement(stmt.alt, local_labels, c.tl)
      [] stmt.t = "while" ->
            abrupt_escape_analysis_statement(
                stmt.stmt, Append(local_labels, "#looped"), target_labels)
      [] stmt.t = "for" ->
            abrupt_escape_analysis_statement(stmt.stmt, local_labels, target_labels)
      [] stmt.t = "try" ->
            LET b == abrupt_escape_analysis_in_block_body(
                         stmt.block, local_labels, target_labels)
                h == IF stmt.handler = None THEN [r |-> FALSE, tl |-> b.tl]
                     ELSE abrupt_escape_analysis_in_block_body(
                              stmt.handler.body, local_labels, b.tl)
                f == IF stmt.finalizer = None THEN [r |-> FALSE, tl |-> h.tl]
                     ELSE abrupt_escape_analysis_in_block_body(
                              stmt.finalizer.body, local_labels, h.tl)
            IN  IF b.r THEN (IF h.r THEN h ELSE f)
                ELSE [r |-> FALSE, tl |-> b.tl]
      [] stmt.t = "labeled" ->
            abrupt_escape_analysis_statement(
                stmt.stmt, Append(local_labels, stmt.label), target_labels)
      [] stmt.t \in {"expr", "decl", "with", "func"} ->
            [r |-> FALSE, tl |-> target_labels]

RECURSIVE transform_return_breaks_recursively(_, _, _, _, _)

MapStatements(body, action_var, use_var, new_try_label, target_labels) ==
    [i \in 1..Len(body) |->
        transform_return_breaks_recursively(
            body[i], action_var, use_var, new_try_label, target_labels)]

transform_return_breaks_recursively_in_block(body, action_var, use_var, new_try_label, target_labels) ==
    MapStatements(body, action_var, use_var, new_try_label, target_labels)

transform_return_breaks_recursively(stmt, action_var, use_var, new_try_label, target_labels) ==
    CASE stmt.t = "return" ->
            BlockStatement(<<
                create_expression_statement(
                    create_assignment_expression_name(
                        action_var, NumberLiteral(RETURN_ACTION_ID))),
                create_expression_statement(
                    create_assignment_expression_name(
                        use_var,
                        IF stmt.arg # None THEN stmt.arg ELSE Identifier("undefined"))),
                BreakStatement(new_try_label) >>)
      [] stmt.t = "break" ->
            LET label == IF stmt.label # NoLabel THEN stmt.label ELSE "#looped"
                index == IndexOf(target_labels, label)
            IN  IF index = -1
                THEN BreakStatement(label)
                ELSE BlockStatement(<<
                        create_expression_statement(
                            create_assignment_expression_name(
                                action_var,
                                NumberLiteral(BREAK_ACTION_ID_OFFSET + index))),
                        BreakStatement(new_try_label) >>)
      [] stmt.t = "block" ->
            BlockStatement(
                MapStatements(stmt.body, action_var, use_var, new_try_label, target_labels))
      [] stmt.t = "if" ->
            IfStatement(
                stmt.test,
                transform_return_breaks_recursively(
                    stmt.cons, action_var, use_var, new_try_label, target_labels),
                IF stmt.alt # None
                THEN transform_return_breaks_recursively(
                         stmt.alt, action_var, use_var, new_try_label, target_labels)
                ELSE None)
      [] stmt.t = "while" ->
            WhileStatement(
                stmt.test,
                transform_return_breaks_recursively(
                    stmt.stmt, action_var, use_var, new_try_label, target_labels))
      [] stmt.t = "try" /\ stmt.finalizer = None /\ stmt.handler # None ->
            TryStatement(
                transform_return_breaks_recursively_in_block(
                    stmt.block, action_var, use_var, new_try_label, target_labels),
                CatchClause(
                    stmt.handler.param,
                    transform_return_breaks_recursively_in_block(
                        stmt.handler.body, action_var, use_var, new_try_label, target_labels)),
                None)
      [] stmt.t = "labeled" ->
            LabeledStatement(
                stmt.label,
                transform_return_breaks_recursively(
                    stmt.stmt, action_var, use_var, new_try_label, target_labels))
      [] stmt.t = "with" ->
            WithStatement(
                stmt.object,
                transform_return_breaks_recursively(
                    stmt.stmt, action_var, use_var, new_try_label, target_labels))
      [] stmt.t \in {"expr", "decl", "throw", "func"} -> stmt

\* The tail dispatch for the break targets, one `if` per target label.
BreakDispatch(action_var, target_labels) ==
    [i \in 1..Len(target_labels) |->
        IfStatement(
            Binary("===", Identifier(action_var),
                   NumberLiteral(BREAK_ACTION_ID_OFFSET + (i - 1))),
            BreakStatement(IF target_labels[i] = "#looped" THEN NoLabel
                           ELSE target_labels[i]),
            None)]

transform_finally_wrap(outer_try, finalizer_body, action_var, use_var, new_try_label, target_labels, st) ==
    LET new_body ==
            << create_variable_declaration_let(action_var, NumberLiteral(0)),
               create_variable_declaration_let(use_var, None),
               LabeledStatement(new_try_label, outer_try),
               BlockStatement(finalizer_body),
               IfStatement(
                   Binary("===", Identifier(action_var), NumberLiteral(THROW_ACTION_ID)),
                   ThrowStatement(Identifier(use_var)),
                   None),
               IfStatement(
                   Binary("===", Identifier(action_var), NumberLiteral(RETURN_ACTION_ID)),
                   ReturnStatement(Identifier(use_var)),
                   None) >>
            \o BreakDispatch(action_var, target_labels)
    IN  [action |-> "Revisit", stmt |-> BlockStatement(new_body), state |-> st]

\* The catch that wraps the protected code: `catch (p) { action = 2; use = p; }`.
WrappingCatch(param, action_var, use_var) ==
    CatchClause(param, <<
        create_expression_statement(
            create_assignment_expression_name(action_var, NumberLiteral(2))),
        create_expression_statement(
            create_assignment_expression_name(use_var, Identifier(param))) >>)

transform_try_finally(try_stmt, st) ==
    LET an == abrupt_escape_analysis_in_block_body(try_stmt.block, <<>>, <<>>)
        target_labels == an.tl
        has_abrupt == an.r
        n1 == next_ident_name(st)
        n2 == next_ident_name(n1.state)
        n3 == next_ident_name(n2.state)
        action_var == n1.name
        use_var == n2.name
        new_try_label == n3.name
        new_try_body ==
            IF has_abrupt
            THEN MapStatements(try_stmt.block, action_var, use_var, new_try_label, target_labels)
            ELSE try_stmt.block
        new_try == TryStatement(new_try_body, WrappingCatch("e", action_var, use_var), None)
    IN  transform_finally_wrap(new_try, try_stmt.finalizer.body, action_var, use_var,
                               new_try_label, target_labels, n3.state)

transform_try_catch_finally(try_stmt, st) ==
    LET an == abrupt_escape_analysis_in_block_body(try_stmt.block, <<>>, <<>>)
        target_labels == an.tl
        has_abrupt == an.r
        n1 == next_ident_name(st)
        n2 == next_ident_name(n1.state)
        n3 == next_ident_name(n2.state)
        n4 == next_ident_name(n3.state)
        action_var == n1.name
        use_var == n2.name
        new_try_label == n3.name
        catch_var == n4.name
        new_try_body ==
            IF has_abrupt
            THEN MapStatements(try_stmt.block, action_var, use_var, new_try_label, target_labels)
            ELSE try_stmt.block
        inner_try == TryStatement(try_stmt.handler.body,
                                  WrappingCatch(catch_var, action_var, use_var), None)
        outer_try == TryStatement(new_try_body,
                                  CatchClause(try_stmt.handler.param, <<inner_try>>), None)
    IN  transform_finally_wrap(outer_try, try_stmt.finalizer.body, action_var, use_var,
                               new_try_label, target_labels, n4.state)

transform_finally_statement(try_stmt, st) ==
    IF try_stmt.finalizer = None
    THEN [action |-> "Normal", stmt |-> try_stmt, state |-> st]
    ELSE IF try_stmt.handler # None
    THEN transform_try_catch_finally(try_stmt, st)
    ELSE transform_try_finally(try_stmt, st)

---------------------------------------------------------------------------
(* Driver shared by the specifications: an input is lowered by a pass and  *)
(* the result is executed in a program context.                            *)

MaxFuel == 3

NoLowering == [action |-> "none", stmt |-> None]
NoRun == [ref |-> None, low |-> None, blk |-> None]

StartState(orc) == ExecState(<<>>, <<>>, orc, MaxFuel)

---------------------------------------------------------------------------
(* Specification of the try/finally pass.                                  *)
(*                                                                         *)
(* The try statement sits in a function body                               *)
(*     A: { while (w()) { TRY; k(); } m(); } n();                          *)
(* so that an unlabeled break, `break A`, a return and a throw out of it   *)
(* are all told apart by the calls that follow.                            *)

FinallyContext(s) ==
    << LabeledStatement("A", BlockStatement(<<
           WhileStatement(Call("w"),
               BlockStatement(<< s, ExpressionStatement(Call("k")) >>)),
           ExpressionStatement(Call("m")) >>)),
       ExpressionStatement(Call("n")) >>

\* The state in which the try statement is first entered: w() was called.
FinallyEntry(orc) ==
    LET r == Eval(Call("w"), StartState(orc))
    IN  [r.st EXCEPT !.fuel = @ - 1]

FinLeaves ==
    { ExpressionStatement(Call("a")),
      ReturnStatement(Call("f")),
      ReturnStatement(None),
      BreakStatement(NoLabel),
      BreakStatement("A"),
      BreakStatement("L"),
      ThrowStatement(Call("t")) }

\* Statements that hold sub-statements without opening a break scope.
FinWrappers(S) ==
    { IfStatement(Call("c"), x, None) : x \in S }
    \cup { IfStatement(Call("c"), x[1], x[2]) : x \in S \X S }
    \cup { BlockStatement(<<x[1], x[2]>>) : x \in S \X S }
    \cup { TryStatement(<<x>>, CatchClause("e2", <<>>), None) : x \in S }
    \cup { TryStatement(<<x[1]>>, CatchClause("e2", <<x[2]>>), None) : x \in S \X S }
    \cup { WithStatement(Call("o"), x) : x \in S }

\* Statements that open a break scope: a label, a loop.
FinScopes(S) ==
    { LabeledStatement("L", x) : x \in S }
    \cup { WhileStatement(Call("c"), x) : x \in S }

RECURSIVE LabelsResolve(_, _)
\* Every labeled break names a label in scope, and no label is redeclared.
LabelsResolve(s, labels) ==
    CASE s.t = "break"   -> s.label = NoLabel \/ s.label \in labels
      [] s.t = "block"   -> \A i \in 1..Len(s.body) : LabelsResolve(s.body[i], labels)
      [] s.t = "if"      -> /\ LabelsResolve(s.cons, labels)
                            /\ (s.alt = None \/ LabelsResolve(s.alt, labels))
      [] s.t = "while"   -> LabelsResolve(s.stmt, labels)
      [] s.t = "with"    -> LabelsResolve(s.stmt, labels)
      [] s.t = "labeled" -> s.label \notin labels
                            /\ LabelsResolve(s.stmt, labels \cup {s.label})
      [] s.t = "try"     ->
            /\ \A i \in 1..Len(s.block) : LabelsResolve(s.block[i], labels)
            /\ (s.handler = None
                \/ \A i \in 1..Len(s.handler.body) :
                       LabelsResolve(s.handler.body[i], labels))
            /\ (s.finalizer = None
                \/ \A i \in 1..Len(s.finalizer.body) :
                       LabelsResolve(s.finalizer.body[i], labels))
      [] OTHER -> TRUE

FinLevel1 == FinLeaves \cup FinWrappers(FinLeaves) \cup FinScopes(FinLeaves)
FinLevel2 == FinScopes(FinWrappers(FinLeaves))

FinBlocks ==
    { <<s>> : s \in FinLevel1 \cup FinLevel2 }
    \cup { <<x[1], x[2]>> : x \in FinLevel1 \X FinLeaves }

FinFinalizer == BlockStatement(<< ExpressionStatement(Call("g")) >>)

FinHandlers ==
    { CatchClause("err", << ExpressionStatement(Call("h")) >>),
      CatchClause("err", << ThrowStatement(Identifier("err")) >>),
      CatchClause("err", << ReturnStatement(Call("f")) >>),
      CatchClause("err", << BreakStatement("A") >>) }

FinallyInputs ==
    { s \in { TryStatement(b, None, FinFinalizer) : b \in FinBlocks }
            \cup { TryStatement(<<x[1]>>, x[2], FinFinalizer) : x \in FinLeaves \X FinHandlers }
            \cup { TryStatement(<<x>>, None,
                                BlockStatement(<< ReturnStatement(Call("g")) >>)) :
                       x \in FinLeaves } :
        LabelsResolve(s, {"A"}) }

FinallyOracles ==
    { [a |-> <<x[1]>>, c |-> <<x[2]>>, f |-> <<Num(7)>>, t |-> <<Err(3)>>,
       h |-> <<x[3]>>, w |-> <<Bool(TRUE), Bool(FALSE)>>] :
        x \in {Num(1), Err(1)} \X {Bool(TRUE), Bool(FALSE)} \X {Undef, Err(4)} }

InitFinally ==
    /\ pc = "input"
    /\ state = InitialMapperState
    /\ input \in FinallyInputs
    /\ oracle \in FinallyOracles
    /\ lowered = NoLowering
    /\ run = NoRun

LowerFinally ==
    /\ pc = "input"
    /\ LET r == transform_finally_statement(input, state)
       IN  /\ lowered' = [action |-> r.action, stmt |-> r.stmt]
           /\ state' = r.state
    /\ pc' = "lowered"
    /\ UNCHANGED <<input, oracle, run>>

ExecuteFinally ==
    /\ pc = "lowered"
    /\ run' = [ref |-> ExecSeq(FinallyContext(input), StartState(oracle)),
               low |-> ExecSeq(FinallyContext(lowered.stmt), StartState(oracle)),
               blk |-> ExecSeq(input.block, FinallyEntry(oracle))]
    /\ pc' = "done"
    /\ UNCHANGED <<state, input, oracle, lowered>>

NextFinally == LowerFinally \/ ExecuteFinally

SpecFinally == InitFinally /\ [][NextFinally]_vars

---------------------------------------------------------------------------
(* Properties of the try/finally pass.                                     *)

Count(seq, x) == Cardinality({ i \in 1..Len(seq) : seq[i] = x })

RECURSIVE EscapingBreaks(_, _)
\* The targets of the breaks in s that leave s: a label that s does not
\* declare, or NoLabel for an unlabeled break outside every loop of s.
\* Function bodies are a boundary.
EscapingBreaks(s, locals) ==
    LET Of(body) == UNION { EscapingBreaks(body[i], locals) : i \in 1..Len(body) }
    IN
    CASE s.t = "break"   ->
            IF s.label = NoLabel
            THEN (IF "#inloop" \in locals THEN {} ELSE {NoLabel})
            ELSE (IF s.label \in locals THEN {} ELSE {s.label})
      [] s.t = "block"   -> Of(s.body)
      [] s.t = "if"      -> EscapingBreaks(s.cons, locals)
                            \cup (IF s.alt = None THEN {}
                                  ELSE EscapingBreaks(s.alt, locals))
      [] s.t = "while"   -> EscapingBreaks(s.stmt, locals \cup {"#inloop"})
      [] s.t = "labeled" -> EscapingBreaks(s.stmt, locals \cup {s.label})
      [] s.t = "with"    -> EscapingBreaks(s.stmt, locals)
      [] s.t = "try"     ->
            Of(s.block)
            \cup (IF s.handler = None THEN {} ELSE Of(s.handler.body))
            \cup (IF s.finalizer = None THEN {} ELSE Of(s.finalizer.body))
      [] OTHER -> {}

RECURSIVE HasReturn(_)
\* Whether a return statement occurs in s outside nested functions.
HasReturn(s) ==
    LET In(body) == \E i \in 1..Len(body) : HasReturn(body[i])
    IN
    CASE s.t = "return"  -> TRUE
      [] s.t = "block"   -> In(s.body)
      [] s.t = "if"      -> HasReturn(s.cons) \/ (s.alt # None /\ HasReturn(s.alt))
      [] s.t \in {"while", "labeled", "with"} -> HasReturn(s.stmt)
      [] s.t = "try"     ->
            In(s.block)
            \/ (s.handler # None /\ In(s.handler.body))
            \/ (s.finalizer # None /\ In(s.finalizer.body))
      [] OTHER -> FALSE

\* The parts of the lowered form: { let action = 0; let value; label: try
\* {...} catch ...; { finally body }; if (action === 1) throw value;
\* if (action === 2) return value; if (action === 3+k) break T_k; ... }
FinActionVar == lowered.stmt.body[1].name
FinValueVar  == lowered.stmt.body[2].name
FinTryLabel  == lowered.stmt.body[3].label
FinTryBlock  == BlockStatement(lowered.stmt.body[3].stmt.block)
FinBreakTail == SubSeq(lowered.stmt.body, 7, Len(lowered.stmt.body))

FinLowered == pc \in {"lowered", "done"} /\ lowered.action = "Revisit"

\* C1: when the protected code throws a value E that the original statement
\* propagates (out of the try block of a try/finally, or out of the user
\* catch handler of a try/catch/finally), the wrapping catch records
\* action = 1 and value = E, the finally body runs exactly once and the tail
\* re-throws E: the lowered code neither returns E nor completes normally.
C1_ThrowIsRethrown ==
    (pc = "done" /\ input.finalizer = FinFinalizer /\ run.ref.k = "throw")
    => /\ run.low.k = "throw"
       /\ run.low.v = run.ref.v
       /\ Count(run.low.st.tr, "g") = 1
       /\ run.low.st.env[FinActionVar] = Num(THROW_ACTION_ID)
       /\ run.low.st.env[FinValueVar] = run.ref.v

\* C2: every `return e` inside the try block of a try/finally is replaced
\* (no return is left in the lowered try block), so that e is evaluated
\* before the finally body, the finally body runs exactly once, and the
\* tail then returns the value e had, unless the finally body itself
\* completes abruptly.
C2_ReturnRunsFinally ==
    /\ (FinLowered /\ input.handler = None) => ~HasReturn(FinTryBlock)
    /\ (pc = "done" /\ input.handler = None /\ run.blk.k = "return")
       => /\ Count(run.low.st.tr, "g") = 1
          /\ run.low.st.tr = run.ref.st.tr
          /\ (input.finalizer = FinFinalizer
              => run.low.k = "return" /\ run.low.v = run.blk.v)

\* C3: every break in the try block whose target lies outside the try
\* statement has its target T in the collected list at some index k, is
\* replaced by { action = 3+k; break $try; } (no escaping break is left in
\* the lowered try block) and is dispatched by `if (action === 3+k) break T`
\* in the tail, distinct targets having distinct codes; hence the finally
\* body runs before control reaches the break's target.
C3_EscapingBreakRunsFinally ==
    /\ (FinLowered /\ input.handler = None)
       => /\ \A T \in EscapingBreaks(BlockStatement(input.block), {}) :
                \E k \in 1..Len(FinBreakTail) :
                    /\ FinBreakTail[k].test.r = NumberLiteral(BREAK_ACTION_ID_OFFSET + (k - 1))
                    /\ FinBreakTail[k].cons = BreakStatement(T)
          /\ \A j, k \in 1..Len(FinBreakTail) :
                FinBreakTail[j].cons = FinBreakTail[k].cons => j = k
          /\ EscapingBreaks(FinTryBlock, {FinTryLabel}) = {}
    /\ (pc = "done" /\ input.handler = None /\ input.finalizer = FinFinalizer
        /\ run.blk.k = "break")
       => /\ run.low.k = run.ref.k
          /\ run.low.st.tr = run.ref.st.tr
          /\ Count(run.low.st.tr, "g") = 1

---------------------------------------------------------------------------
(* The mapper's descent rule (mapper.rs, map_statement).                   *)

\* enter_node is set to true before the visitors run and is afterwards only
\* or-ed with `action == Normal`.
enter_node(action) == TRUE \/ action = "Normal"

---------------------------------------------------------------------------
(* The switch pass (stmt_switch.rs).                                       *)

\* The visitor that update_breaks registers on its sub-mapper.  vs is the
\* state its closure shares: has_breaks, break_label_name and the
\* sub-mapper's MapperState.
update_breaks_visitor(stmt, before, vs) ==
    IF ~before THEN [action |-> "Normal", stmt |-> stmt, vs |-> vs]
    ELSE
    CASE stmt.t = "break" ->
            IF stmt.label = NoLabel
            THEN LET n   == next_ident_name(vs.state)
                     vs2 == IF ~vs.has_breaks
                            THEN [vs EXCEPT !.break_label_name = n.name,
                                            !.state = n.state,
                                            !.has_breaks = TRUE]
                            ELSE vs
                 IN  [action |-> "Normal",
                      stmt   |-> BreakStatement(vs2.break_label_name),
                      vs     |-> vs2]
            ELSE [action |-> "Normal", stmt |-> stmt, vs |-> vs]
      [] stmt.t \in {"if", "while", "try", "func"} ->
            [action |-> "Skip", stmt |-> stmt, vs |-> vs]
      [] stmt.t \in {"switch", "continue", "dowhile", "for", "forin", "forof"} ->
            [action |-> "Panic", stmt |-> stmt, vs |-> vs]
      [] OTHER -> [action |-> "Normal", stmt |-> stmt, vs |-> vs]

RECURSIVE update_breaks_map_statement(_, _)
RECURSIVE update_breaks_map_from(_, _, _)

\* A panic of the visitor ends the traversal: the statement it was called
\* on is handed up as it is, and so is every statement around it; nothing
\* is mapped or built after it.
update_breaks_map_next(rest, done, h) ==
    IF h.vs.panic
    THEN [stmts |-> done \o << h.stmt >> \o Tail(rest), vs |-> h.vs]
    ELSE update_breaks_map_from(Tail(rest), Append(done, h.stmt), h.vs)

\* The statements of rest mapped in source order after those of done.
update_breaks_map_from(rest, done, vs) ==
    IF rest = <<>> THEN [stmts |-> done, vs |-> vs]
    ELSE update_breaks_map_next(rest, done,
                                update_breaks_map_statement(Head(rest), vs))

update_breaks_map_statements(body, vs) == update_breaks_map_from(body, <<>>, vs)

\* Mapper::map_statement, the visitors of the after phase.
update_breaks_map_after(m) ==
    LET a == update_breaks_visitor(m.stmt, FALSE, m.vs)
    IN  [stmt |-> a.stmt, vs |-> a.vs]

update_breaks_block(s, r) ==
    IF r.vs.panic THEN [stmt |-> s, vs |-> r.vs]
    ELSE update_breaks_map_after([stmt |-> [s EXCEPT !.body = r.stmts], vs |-> r.vs])

update_breaks_body(s, r) ==
    IF r.vs.panic THEN [stmt |-> s, vs |-> r.vs]
    ELSE update_breaks_map_after([stmt |-> [s EXCEPT !.stmt = r.stmt], vs |-> r.vs])

update_breaks_if_alt(s, c, a) ==
    IF a.vs.panic THEN [stmt |-> s, vs |-> a.vs]
    ELSE update_breaks_map_after(
             [stmt |-> [s EXCEPT !.cons = c.stmt, !.alt = a.stmt], vs |-> a.vs])

update_breaks_if(s, c) ==
    IF c.vs.panic THEN [stmt |-> s, vs |-> c.vs]
    ELSE IF s.alt = None
    THEN update_breaks_map_after([stmt |-> [s EXCEPT !.cons = c.stmt], vs |-> c.vs])
    ELSE update_breaks_if_alt(s, c, update_breaks_map_statement(s.alt, c.vs))

update_breaks_try_finalizer(s, k, h, f) ==
    IF f.vs.panic THEN [stmt |-> s, vs |-> f.vs]
    ELSE update_breaks_map_after(
             [stmt |-> TryStatement(k.stmts,
                           IF s.handler = None THEN None
                           ELSE CatchClause(s.handler.param, h.stmts),
                           IF s.finalizer = None THEN None
                           ELSE BlockStatement(f.stmts)),
              vs   |-> f.vs])

update_breaks_try_handler(s, k, h) ==
    IF h.vs.panic THEN [stmt |-> s, vs |-> h.vs]
    ELSE update_breaks_try_finalizer(s, k, h,
             IF s.finalizer = None THEN [stmts |-> <<>>, vs |-> h.vs]
             ELSE update_breaks_map_statements(s.finalizer.body, h.vs))

update_breaks_try(s, k) ==
    IF k.vs.panic THEN [stmt |-> s, vs |-> k.vs]
    ELSE update_breaks_try_handler(s, k,
             IF s.handler = None THEN [stmts |-> <<>>, vs |-> k.vs]
             ELSE update_breaks_map_statements(s.handler.body, k.vs))

\* Mapper::map_statement after the visitor answered b in the before phase:
\* the children of b.stmt when enter_node, then the visitors of the after
\* phase.
update_breaks_map_children(b) ==
    CASE b.action = "Panic" ->
            [stmt |-> b.stmt, vs |-> [b.vs EXCEPT !.panic = TRUE]]
      [] b.action # "Panic" /\ enter_node(b.action)
            /\ b.stmt.t \in {"block", "func"} ->
            update_breaks_block(b.stmt,
                update_breaks_map_statements(b.stmt.body, b.vs))
      [] b.action # "Panic" /\ enter_node(b.action) /\ b.stmt.t = "if" ->
            update_breaks_if(b.stmt, update_breaks_map_statement(b.stmt.cons, b.vs))
      [] b.action # "Panic" /\ enter_node(b.action)
            /\ b.stmt.t \in {"labeled", "while", "with"} ->
            update_breaks_body(b.stmt, update_breaks_map_statement(b.stmt.stmt, b.vs))
      [] b.action # "Panic" /\ enter_node(b.action) /\ b.stmt.t = "try" ->
            update_breaks_try(b.stmt, update_breaks_map_statements(b.stmt.block, b.vs))
      [] OTHER -> update_breaks_map_after([stmt |-> b.stmt, vs |-> b.vs])

\* Mapper::map_statement of the sub-mapper: the visitor in the before
\* phase, the children when enter_node, the visitor in the after phase.
update_breaks_map_statement(stmt, vs) ==
    update_breaks_map_children(update_breaks_visitor(stmt, TRUE, vs))

RECURSIVE map_switch_cases_from(_, _, _)

map_switch_cases_next(rest, done, c) ==
    IF c.vs.panic
    THEN [cases |-> done \o rest, vs |-> c.vs]
    ELSE map_switch_cases_from(
             Tail(rest), Append(done, SwitchCase(Head(rest).test, c.stmts)), c.vs)

map_switch_cases_from(rest, done, vs) ==
    IF rest = <<>> THEN [cases |-> done, vs |-> vs]
    ELSE map_switch_cases_next(rest, done,
             update_breaks_map_statements(Head(rest).consequent, vs))

\* Mapper::map_switch_statement of the sub-mapper, case by case.
map_switch_cases(cases, vs) == map_switch_cases_from(cases, <<>>, vs)

update_breaks(stmt, next_state_index) ==
    LET vs0 == [has_breaks |-> FALSE, break_label_name |-> "", panic |-> FALSE,
                state |-> [InitialMapperState EXCEPT !.id_counter = next_state_index]]
        r   == map_switch_cases(stmt.cases, vs0)
    IN  [had_breaks |-> r.vs.has_breaks,
         stmt |-> SwitchStatement(stmt.discriminant, r.cases),
         panic |-> r.vs.panic]

\* Step 2: a variable declaration that is a direct child of a consequent
\* becomes the assignment `name = init` (`name = undefined` without init).
declaration_to_assignment(stmt) ==
    IF stmt.t = "decl"
    THEN create_expression_statement(
             create_assignment_expression_name(stmt.name,
                 IF stmt.init = None THEN Identifier("undefined") ELSE stmt.init))
    ELSE stmt

RECURSIVE names_to_predeclare(_)
\* The names step 2 remembers, in source order.
names_to_predeclare(cases) ==
    IF cases = <<>> THEN <<>>
    ELSE LET c == Head(cases).consequent
         IN  SelectSeq([j \in 1..Len(c) |-> IF c[j].t = "decl" THEN c[j].name ELSE ""],
                       LAMBDA n : n # "")
             \o names_to_predeclare(Tail(cases))

\* tests.iter().position(|test| test.is_none()), -1 for None.
default_index(tests) == IndexOf(tests, None)

RECURSIVE case_test_chain(_, _, _, _)
\* tests.enumerate().rev().fold(tail_default_case, ...): the if-else chain,
\* built from the last test to the first; a default adds no link.
case_test_chain(tests, i, outcome_var, prev_if) ==
    IF i = 0 THEN prev_if
    ELSE case_test_chain(tests, i - 1, outcome_var,
            IF tests[i] # None
            THEN IfStatement(
                     Binary("===", Identifier(outcome_var), tests[i]),
                     create_expression_statement(
                         create_assignment_expression_name(outcome_var,
                                                           NumberLiteral(i - 1))),
                     prev_if)
            ELSE prev_if)

\* The final else of the chain: the default's index, when there is one.
tail_default_case(tests, outcome_var) ==
    IF default_index(tests) >= 0
    THEN create_expression_statement(
             create_assignment_expression_name(outcome_var,
                 NumberLiteral(default_index(tests))))
    ELSE None

\* Steps 3 and 4: `let r = N`, the chain of case tests, one
\* `if (r <= i) { consequent }` per case, and the label when needed.
transform_switch_body(tests, consequents, r, needs_label, switch_label) ==
    LET switch_test_outcome_var == r.name
        chain == case_test_chain(tests, Len(tests), r.name,
                                 tail_default_case(tests, r.name))
        new_body ==
            << create_variable_declaration_let(switch_test_outcome_var,
                                               NumberLiteral(Len(tests))) >>
            \o (IF chain = None THEN <<>> ELSE <<chain>>)
            \o [i \in 1..Len(consequents) |->
                    IfStatement(
                        Binary("<=", Identifier(switch_test_outcome_var),
                               NumberLiteral(i - 1)),
                        BlockStatement(consequents[i]),
                        None)]
        new_block == BlockStatement(new_body)
    IN  [action |-> "Revisit",
         stmt   |-> IF needs_label THEN LabeledStatement(switch_label, new_block)
                    ELSE new_block,
         state  |-> r.state]

\* The discriminant's variable and step 2.  d is the outcome of the
\* next_ident_name call for the discriminant; the declaration built from it
\* is returned for a switch without cases only.
transform_switch_cases(stmt, needs_label, switch_label, d) ==
    LET discriminant_var_name == d.name
        discriminant_var_decl ==
            create_variable_declaration_const(discriminant_var_name,
                                              stmt.discriminant)
    IN  IF stmt.cases = <<>>
        THEN [action |-> "Revisit", stmt |-> discriminant_var_decl,
              state |-> d.state]
        ELSE transform_switch_body(
                 [i \in 1..Len(stmt.cases) |-> stmt.cases[i].test],
                 [i \in 1..Len(stmt.cases) |->
                     [j \in 1..Len(stmt.cases[i].consequent) |->
                         declaration_to_assignment(stmt.cases[i].consequent[j])]],
                 next_ident_name(d.state), needs_label, switch_label)

\* Step 1, given the outcome u of update_breaks: the label's name is drawn
\* from the root mapper's state when a break was rewritten.
transform_switch_label(u, st) ==
    LET l == IF u.had_breaks THEN next_ident_name(st)
             ELSE [name |-> "", state |-> st]
    IN  transform_switch_cases(u.stmt, u.had_breaks, l.name,
                               next_ident_name(l.state))

transform_switch_statement(switch_stmt, st) ==
    transform_switch_label(update_breaks(switch_stmt, st.id_counter), st)

---------------------------------------------------------------------------
(* Specification of the switch pass.                                       *)
(*                                                                         *)
(* The switch statement is followed by k(), so that leaving the switch by  *)
(* a break is told apart from any other completion.                        *)

SwitchContext(s) == << s, ExpressionStatement(Call("k")) >>

SwBreak == BreakStatement(NoLabel)
SwCall(f) == ExpressionStatement(Call(f))

\* Consequents of the first case: breaks of the switch directly, in a
\* block, an if, a try and a labeled statement; a break of a nested loop,
\* also inside a nested function; a lexical declaration.
SwConsequents ==
    { <<>>,
      << SwCall("a") >>,
      << SwCall("a"), SwBreak >>,
      << BlockStatement(<< SwBreak >>), SwCall("b") >>,
      << IfStatement(Call("c"), SwBreak, None), SwCall("b") >>,
      << TryStatement(<< SwBreak >>, CatchClause("e", << SwCall("h") >>), None),
         SwCall("b") >>,
      << LabeledStatement("L", BlockStatement(<< SwCall("a"), SwBreak >>)),
         SwCall("b") >>,
      << WhileStatement(Call("c"), BlockStatement(<< SwCall("a"), SwBreak >>)),
         SwCall("b") >>,
      << FunctionDeclaration(<< WhileStatement(Call("c"), SwBreak) >>),
         SwCall("a") >>,
      << VariableDeclaration("let", "y", Call("f")), SwCall("a") >>,
      << VariableDeclaration("const", "y", Call("f")), SwBreak >> }

SwTests == { None, NumberLiteral(1), NumberLiteral(2), Call("p") }

SwFirst  == { SwitchCase(t, c) : t \in SwTests, c \in SwConsequents }
SwSecond == { SwitchCase(t, c) : t \in SwTests,
                c \in { << SwCall("x2") >>, << SwCall("x2"), SwBreak >> } }
SwThird  == { SwitchCase(t, << SwCall("x3") >>) : t \in SwTests }
SwShort  == { SwitchCase(t, c) : t \in SwTests,
                c \in { <<>>, << SwCall("x1") >>, << SwCall("x1"), SwBreak >> } }

OneDefault(cases) ==
    Cardinality({ i \in 1..Len(cases) : cases[i].test = None }) <= 1

SwitchInputs ==
    { SwitchStatement(Call("d"), cases) :
        cases \in { cs \in {<<>>}
                           \cup { <<c1>> : c1 \in SwFirst }
                           \cup { <<c1, c2>> : c1 \in SwFirst, c2 \in SwSecond }
                           \cup { <<c1, c2, c3>> :
                                     c1 \in SwShort, c2 \in SwSecond, c3 \in SwThird } :
                    OneDefault(cs) } }

SwitchOracles ==
    { [d |-> <<x[1]>>, p |-> <<x[2]>>, c |-> <<x[3]>>, f |-> <<Num(7)>>] :
        x \in {Num(1), Num(2), Num(7)} \X {Num(2), Num(7)}
              \X {Bool(TRUE), Bool(FALSE)} }

InitSwitch ==
    /\ pc = "input"
    /\ state = InitialMapperState
    /\ input \in SwitchInputs
    /\ oracle \in SwitchOracles
    /\ lowered = NoLowering
    /\ run = NoRun

LowerSwitch ==
    /\ pc = "input"
    /\ LET r == transform_switch_statement(input, state)
       IN  /\ lowered' = [action |-> r.action, stmt |-> r.stmt]
           /\ state' = r.state
    /\ pc' = "lowered"
    /\ UNCHANGED <<input, oracle, run>>

\* blk: the reference outcome of matching the case tests against the value
\* of the discriminant.
ExecuteSwitch ==
    /\ pc = "lowered"
    /\ run' = [ref |-> ExecSeq(SwitchContext(input), StartState(oracle)),
               low |-> ExecSeq(SwitchContext(lowered.stmt), StartState(oracle)),
               blk |-> LET d == Eval(input.discriminant, StartState(oracle))
                       IN  MatchCase(input.cases, 1, d.v, d.st)]
    /\ pc' = "done"
    /\ UNCHANGED <<state, input, oracle, lowered>>

NextSwitch == LowerSwitch \/ ExecuteSwitch

SpecSwitch == InitSwitch /\ [][NextSwitch]_vars

---------------------------------------------------------------------------
(* Properties of the switch pass.                                          *)

SwLowered == pc \in {"lowered", "done"} /\ input.cases # <<>>

\* The block of the lowered form, inside the label when there is one.
SwLoweredBlock ==
    IF lowered.stmt.t = "labeled" THEN lowered.stmt.stmt ELSE lowered.stmt
SwLoweredBody == SwLoweredBlock.body

\* The result variable: the `let` whose initialiser is the number of cases.
SwOutcomeVar ==
    LET i == CHOOSE i \in 1..Len(SwLoweredBody) :
                 /\ SwLoweredBody[i].t = "decl"
                 /\ SwLoweredBody[i].init = NumberLiteral(Len(input.cases))
    IN  SwLoweredBody[i].name

\* The blocks `if (r <= i) { ... }`, in order.
SwGuards ==
    SelectSeq(SwLoweredBody, LAMBDA s : s.t = "if" /\ s.test.op = "<=")

RECURSIVE ChainLefts(_)
\* The left operands of the comparisons of an if-else chain.
ChainLefts(s) ==
    IF s.t = "if" /\ s.test.op = "===" THEN {s.test.l} \cup ChainLefts(s.alt)
    ELSE {}

\* The index (from 0) at which the consequents start in the original:
\* the first case whose test is strictly equal to the discriminant's value,
\* else the default's index, else the number of cases.
SwExpectedIndex ==
    IF run.blk.idx # 0 THEN run.blk.idx - 1
    ELSE IF DefaultIndex(input.cases) # 0 THEN DefaultIndex(input.cases) - 1
    ELSE Len(input.cases)

RECURSIVE BreakList(_, _)
RECURSIVE BreakListSeq(_, _)
\* The break statements of s in source order, each with its label and
\* whether it lies in a nested loop or a nested function body.
BreakListSeq(body, nested) ==
    IF body = <<>> THEN <<>>
    ELSE BreakList(Head(body), nested) \o BreakListSeq(Tail(body), nested)

BreakList(s, nested) ==
    CASE s.t = "break"   -> << [label |-> s.label, nested |-> nested] >>
      [] s.t = "block"   -> BreakListSeq(s.body, nested)
      [] s.t = "func"    -> BreakListSeq(s.body, TRUE)
      [] s.t = "while"   -> BreakList(s.stmt, TRUE)
      [] s.t \in {"labeled", "with"} -> BreakList(s.stmt, nested)
      [] s.t = "if"      ->
            BreakList(s.cons, nested)
            \o (IF s.alt = None THEN <<>> ELSE BreakList(s.alt, nested))
      [] s.t = "try"     ->
            BreakListSeq(s.block, nested)
            \o (IF s.handler = None THEN <<>>
                ELSE BreakListSeq(s.handler.body, nested))
            \o (IF s.finalizer = None THEN <<>>
                ELSE BreakListSeq(s.finalizer.body, nested))
      [] s.t = "switch"  ->
            BreakListSeq([i \in 1..Len(s.cases) |->
                             BlockStatement(s.cases[i].consequent)], nested)
      [] OTHER -> <<>>

\* Inputs without a nested loop, a nested function or a declaration.
SwPlain ==
    /\ \A i \in 1..Len(BreakList(input, FALSE)) : ~BreakList(input, FALSE)[i].nested
    /\ names_to_predeclare(input.cases) = <<>>

\* C4: the lowering of a switch with at least one case evaluates the
\* discriminant exactly once, into a const emitted before the case tests;
\* every comparison of the test chain has that const as its left operand;
\* and the result variable ends up as the index of the first case whose
\* test is strictly equal to the discriminant's value.
C4_DiscriminantStoredAndCompared ==
    /\ SwLowered
       => \E i \in 1..Len(SwLoweredBody) :
             /\ SwLoweredBody[i].t = "decl"
             /\ SwLoweredBody[i].kind = "const"
             /\ SwLoweredBody[i].init = input.discriminant
             /\ \A j \in 1..Len(SwLoweredBody) :
                   /\ ChainLefts(SwLoweredBody[j]) \subseteq {Identifier(SwLoweredBody[i].name)}
                   /\ ChainLefts(SwLoweredBody[j]) # {} => i < j
    /\ (pc = "done" /\ input.cases # <<>>)
       => /\ Count(run.low.st.tr, "d") = 1
          /\ run.blk.idx # 0
             => run.low.st.env[SwOutcomeVar] = Num(run.blk.idx - 1)

\* C5: the result variable starts as the number of cases N; after the test
\* chain it holds the index of the first matching case, else the default's
\* index, else N; and exactly the consequents from that index on run, in
\* source order, until a break leaves the switch (so none runs when nothing
\* matches and there is no default).
C5_ResultIndexSelectsConsequents ==
    /\ SwLowered
       => \E i \in 1..Len(SwLoweredBody) :
             SwLoweredBody[i] =
                 VariableDeclaration("let", SwOutcomeVar, NumberLiteral(Len(input.cases)))
    /\ (pc = "done" /\ input.cases # <<>>)
       => /\ run.low.st.env[SwOutcomeVar] = Num(SwExpectedIndex)
          /\ SwPlain
             => /\ run.low.k = run.ref.k
                /\ SelectSeq(run.low.st.tr, LAMBDA f : f # "d")
                   = SelectSeq(run.ref.st.tr, LAMBDA f : f # "d")

\* C6: the pre-pass gives the wrapper's label to exactly the unlabeled
\* breaks that target the switch; an unlabeled break in a nested while loop
\* or a nested function body stays unlabeled; and the lowered form is
\* wrapped in the label if and only if some break carries it.
C6_OnlySwitchBreaksRelabelled ==
    SwLowered
    => LET before == BreakList(input, FALSE)
           after  == BreakList(lowered.stmt, FALSE)
           L      == IF lowered.stmt.t = "labeled" THEN lowered.stmt.label
                     ELSE NoLabel
       IN  /\ Len(after) = Len(before)
           /\ \A i \in 1..Len(before) :
                 after[i].label = IF before[i].nested THEN NoLabel ELSE L
           /\ (lowered.stmt.t = "labeled")
              <=> (\E i \in 1..Len(after) : after[i].label # NoLabel)
           /\ pc = "done" /\ names_to_predeclare(input.cases) = <<>>
              => SelectSeq(run.low.st.tr, LAMBDA f : f \in {"a", "b", "c", "h", "k"})
                 = SelectSeq(run.ref.st.tr, LAMBDA f : f \in {"a", "b", "c", "h", "k"})

\* C7: every declaration that is a direct child of a consequent becomes
\* the assignment `name = init` in place, and a `let name` for it stands in
\* the lowered form before the test chain and the consequent blocks; so the
\* assignment never fails for want of a declaration.
C7_DeclarationsPredeclared ==
    /\ SwLowered
       => /\ \A i \in 1..Len(input.cases) :
                \A j \in 1..Len(input.cases[i].consequent) :
                    input.cases[i].consequent[j].t = "decl"
                    => SwGuards[i].cons.body[j]
                       = ExpressionStatement(
                             Assignment(input.cases[i].consequent[j].name,
                                        input.cases[i].consequent[j].init))
          /\ \A n \in 1..Len(names_to_predeclare(input.cases)) :
                \E i \in 1..Len(SwLoweredBody) :
                    /\ SwLoweredBody[i] =
                           VariableDeclaration("let",
                               names_to_predeclare(input.cases)[n], None)
                    /\ \A j \in 1..i : SwLoweredBody[j].t = "decl"
    /\ (pc = "done" /\ input.cases # <<>>
        /\ names_to_predeclare(input.cases) # <<>> /\ run.ref.k = "normal")
       => run.low.k = "normal"

---------------------------------------------------------------------------
(* The continue pass (stmt_continue.rs).                                   *)
(*                                                                         *)
(* An entry of continue_targets is a record of a label ("#loop" for a      *)
(* loop) and the generated label, NoLabel standing for Option::None.       *)

ContinueTarget(label, generated) == [label |-> label, generated |-> generated]

create_labeled_stmt(label, body) == LabeledStatement(label, body)

\* The index (from 1) of the nearest entry from the top of the stack whose
\* label is target_label; 0 when there is none.
find_target_loop(continue_targets, target_label) ==
    LET hits == { i \in 1..Len(continue_targets) :
                     continue_targets[i].label = target_label }
    IN  IF hits = {} THEN 0
        ELSE CHOOSE i \in hits : \A j \in hits : j <= i

\* The continue at entry i (from 1) of the stack: the generated label is
\* read from entry i itself; a new one is stored on entry i for a loop entry
\* and on the entry above it for a label entry.
transform_continue_at(target_label, i, st) ==
    IF i = 0 \/ (st.continue_targets[i].generated = NoLabel
                 /\ target_label # "#loop" /\ i + 1 > Len(st.continue_targets))
    THEN [action |-> "Panic", stmt |-> None, state |-> st]
    ELSE IF st.continue_targets[i].generated # NoLabel
    THEN [action |-> "Revisit",
          stmt   |-> BreakStatement(st.continue_targets[i].generated),
          state  |-> st]
    ELSE LET n == next_ident_name(st)
             at == IF target_label = "#loop" THEN i ELSE i + 1
         IN  [action |-> "Revisit",
              stmt   |-> BreakStatement(n.name),
              state  |-> [n.state EXCEPT !.continue_targets[at].generated = n.name]]

transform_continue_statement(continue_stmt, st) ==
    LET target_label == IF continue_stmt.label = NoLabel THEN "#loop"
                        ELSE continue_stmt.label
    IN  transform_continue_at(target_label,
            find_target_loop(st.continue_targets, target_label), st)

\* The updates with the entry of a loop left on the stack when a continue
\* has used it: a push without its pop.
continue_updates_keep_used_entry(stmt, before, st) ==
    CASE stmt.t \in {"dowhile", "for", "forin", "forof", "while"} ->
            IF before
            THEN [stmt  |-> stmt,
                  state |-> [st EXCEPT !.continue_targets =
                                Append(@, ContinueTarget("#loop", NoLabel))]]
            ELSE IF st.continue_targets[Len(st.continue_targets)].generated # NoLabel
                 THEN [stmt  |-> [stmt EXCEPT !.stmt = create_labeled_stmt(
                                     st.continue_targets[Len(st.continue_targets)].generated, @)],
                       state |-> st]
                 ELSE [stmt  |-> stmt,
                       state |-> [st EXCEPT !.continue_targets = SubSeq(@, 1, Len(@) - 1)]]
      [] stmt.t = "labeled" ->
            IF before
            THEN [stmt  |-> stmt,
                  state |-> [st EXCEPT !.continue_targets =
                                Append(@, ContinueTarget(stmt.label, NoLabel))]]
            ELSE [stmt  |-> stmt,
                  state |-> [st EXCEPT !.continue_targets = SubSeq(@, 1, Len(@) - 1)]]
      [] OTHER -> [stmt |-> stmt, state |-> st]

\* Keeps the stack of continue targets in step with the traversal and wraps
\* the body of a loop in the generated label when the loop is left.
apply_continue_transform_updates(stmt, before, st) ==
    CASE stmt.t \in {"dowhile", "for", "forin", "forof", "while"} ->
            IF before
            THEN [stmt  |-> stmt,
                  state |-> [st EXCEPT !.continue_targets =
                                Append(@, ContinueTarget("#loop", NoLabel))]]
            ELSE LET used == st.continue_targets[Len(st.continue_targets)].generated
                     st2  == [st EXCEPT !.continue_targets = SubSeq(@, 1, Len(@) - 1)]
                 IN  IF used # NoLabel
                     THEN [stmt  |-> [stmt EXCEPT !.stmt = create_labeled_stmt(used, @)],
                           state |-> st2]
                     ELSE [stmt |-> stmt, state |-> st2]
      [] stmt.t = "labeled" ->
            IF before
            THEN [stmt  |-> stmt,
                  state |-> [st EXCEPT !.continue_targets =
                                Append(@, ContinueTarget(stmt.label, NoLabel))]]
            ELSE [stmt  |-> stmt,
                  state |-> [st EXCEPT !.continue_targets = SubSeq(@, 1, Len(@) - 1)]]
      [] OTHER -> [stmt |-> stmt, state |-> st]

---------------------------------------------------------------------------
(* The do-while pass (stmt_do_while.rs).                                   *)

\* A lowering whose loop variable starts as false.
do_while_initially_false(do_while, st) ==
    LET loop_test_ident == next_ident_name(st).name
    IN  [action |-> "Revisit",
         stmt   |-> BlockStatement(<<
                        VariableDeclaration("let", loop_test_ident, BooleanLiteral(FALSE)),
                        WhileStatement(Identifier(loop_test_ident),
                            BlockStatement(<<
                                do_while.stmt,
                                ExpressionStatement(
                                    Assignment(loop_test_ident, do_while.test)) >>))
                    >>),
         state  |-> next_ident_name(st).state]

\* { let s = true; while (s) { body; s = test; } } for a fresh name s.
transform_do_while_statement(do_while, st) ==
    LET loop_test_ident == next_ident_name(st).name
        test_decl  == VariableDeclaration("let", loop_test_ident, BooleanLiteral(TRUE))
        while_body == << do_while.stmt,
                         ExpressionStatement(
                             Assignment(loop_test_ident, do_while.test)) >>
        while_stmt == WhileStatement(Identifier(loop_test_ident),
                                     BlockStatement(while_body))
        outer_body == << test_decl, while_stmt >>
    IN  [action |-> "Revisit",
         stmt   |-> BlockStatement(outer_body),
         state  |-> next_ident_name(st).state]

---------------------------------------------------------------------------
(* The for pass (stmt_for_n.rs).                                           *)

\* A lowering that leaves the update expression out of the while body.
for_n_without_update(for_stmt, st) ==
    LET test == IF for_stmt.test = None THEN BooleanLiteral(TRUE) ELSE for_stmt.test
        while_stmt == WhileStatement(test, BlockStatement(<< for_stmt.stmt >>))
    IN  IF for_stmt.init # None
        THEN [action |-> "Revisit",
              stmt   |-> BlockStatement(<<
                            IF for_stmt.init.t \in {"decl", "vardecl"} THEN for_stmt.init
                            ELSE ExpressionStatement(for_stmt.init),
                            while_stmt >>),
              state  |-> st]
        ELSE [action |-> "Normal", stmt |-> while_stmt, state |-> st]

\* while (test) { body; update; }, with `true` for a missing test and no
\* statement for a missing update; inside a block after the init when
\* there is one.
transform_for_n_statement(for_stmt, st) ==
    LET test == IF for_stmt.test = None THEN BooleanLiteral(TRUE) ELSE for_stmt.test
        while_body == << for_stmt.stmt >>
                      \o (IF for_stmt.update # None
                          THEN << ExpressionStatement(for_stmt.update) >>
                          ELSE <<>>)
        while_stmt == WhileStatement(test, BlockStatement(while_body))
    IN  IF for_stmt.init # None
        THEN [action |-> "Revisit",
              stmt   |-> BlockStatement(<<
                            IF for_stmt.init.t \in {"decl", "vardecl"} THEN for_stmt.init
                            ELSE ExpressionStatement(for_stmt.init),
                            while_stmt >>),
              state  |-> st]
        ELSE [action |-> "Normal", stmt |-> while_stmt, state |-> st]

---------------------------------------------------------------------------
(* The traversal that runs the passes over a statement: for every          *)
(* statement the continue-target bookkeeping before the children, the      *)
(* children, the bookkeeping after them, then the loop lowerings; a        *)
(* Revisit runs the cycle again on the statement returned.                 *)

RECURSIVE pipeline_map_statement(_, _)
RECURSIVE pipeline_map_from(_, _, _)

\* A pass that panics ends the traversal: the result of a panicked child is
\* handed up as it is, before anything is built around it.
pipeline_panic(st) == [action |-> "Panic", stmt |-> None, stmts |-> <<>>, state |-> st]

pipeline_map_next(rest, done, h) ==
    IF h.action = "Panic" THEN pipeline_panic(h.state)
    ELSE pipeline_map_from(Tail(rest), Append(done, h.stmt), h.state)

\* The statements of rest mapped in source order after those of done.
pipeline_map_from(rest, done, st) ==
    IF rest = <<>> THEN [action |-> "Normal", stmts |-> done, state |-> st]
    ELSE pipeline_map_next(rest, done, pipeline_map_statement(Head(rest), st))

pipeline_map_statements(body, st) == pipeline_map_from(body, <<>>, st)

pipeline_block(s, r) ==
    IF r.action = "Panic" THEN pipeline_panic(r.state)
    ELSE [action |-> "Normal", stmt |-> [s EXCEPT !.body = r.stmts], state |-> r.state]

pipeline_else(s, c, a) ==
    IF a.action = "Panic" THEN pipeline_panic(a.state)
    ELSE [action |-> "Normal",
          stmt   |-> [s EXCEPT !.cons = c.stmt, !.alt = a.stmt],
          state  |-> a.state]

pipeline_if(s, c) ==
    IF c.action = "Panic" THEN pipeline_panic(c.state)
    ELSE IF s.alt = None
    THEN [action |-> "Normal", stmt |-> [s EXCEPT !.cons = c.stmt], state |-> c.state]
    ELSE pipeline_else(s, c, pipeline_map_statement(s.alt, c.state))

\* The children of s mapped in source order, and s rebuilt around them.
pipeline_map_children(s, st) ==
    CASE s.t = "block" -> pipeline_block(s, pipeline_map_statements(s.body, st))
      [] s.t = "if"    -> pipeline_if(s, pipeline_map_statement(s.cons, st))
      [] OTHER         -> [action |-> "Normal", stmt |-> s, state |-> st]

pipeline_revisit(r) ==
    IF r.action = "Revisit" THEN pipeline_map_statement(r.stmt, r.state)
    ELSE [action |-> "Normal", stmt |-> r.stmt, state |-> r.state]

pipeline_lower(m) ==
    CASE m.stmt.t = "dowhile" ->
            pipeline_revisit(transform_do_while_statement(m.stmt, m.state))
      [] m.stmt.t = "for" ->
            pipeline_revisit(transform_for_n_statement(m.stmt, m.state))
      [] OTHER -> [action |-> "Normal", stmt |-> m.stmt, state |-> m.state]

\* The loop or labeled statement s around its mapped body r: the
\* bookkeeping after the children, then the lowering of the loop.
pipeline_after(s, r) ==
    IF r.action = "Panic" THEN pipeline_panic(r.state)
    ELSE pipeline_lower(
             apply_continue_transform_updates(
                 [s EXCEPT !.stmt = r.stmt], FALSE, r.state))

pipeline_continue(r) ==
    IF r.action = "Panic" THEN pipeline_panic(r.state)
    ELSE [action |-> "Normal", stmt |-> r.stmt, state |-> r.state]

\* The bookkeeping and the lowerings act on loops and labeled statements;
\* every other statement is rebuilt around its mapped children.
pipeline_map_statement(stmt, st) ==
    CASE stmt.t = "continue" ->
            pipeline_continue(transform_continue_statement(stmt, st))
      [] stmt.t \in {"labeled", "while", "dowhile", "for"} ->
            pipeline_after(stmt,
                pipeline_map_statement(stmt.stmt,
                    apply_continue_transform_updates(stmt, TRUE, st).state))
      [] OTHER -> pipeline_map_children(stmt, st)

---------------------------------------------------------------------------
(* Specification of the continue pass together with the loop lowerings.    *)
(*                                                                         *)
(* The input is one loop, with or without the label `outer`, whose body    *)
(* holds continues of the loop itself and a nested while loop.             *)

ContinueContext(s) == << s, ExpressionStatement(Call("k")) >>

CtCall(f) == ExpressionStatement(Call(f))

CtBodyStatements(labels) ==
    { CtCall("a"),
      IfStatement(Call("c"), ContinueStatement(NoLabel), None),
      WhileStatement(Call("v"),
          BlockStatement(<< IfStatement(Call("c"), ContinueStatement(NoLabel), None),
                            CtCall("e") >>)) }
    \cup { IfStatement(Call("c"), ContinueStatement(l), None) : l \in labels }
    \cup { WhileStatement(Call("v"),
               BlockStatement(<< IfStatement(Call("c"), ContinueStatement(l), None),
                                 CtCall("e") >>)) : l \in labels }

CtBodies(labels) ==
    { BlockStatement(<< s1, s2, CtCall("b") >>) :
        s1 \in CtBodyStatements(labels), s2 \in CtBodyStatements(labels) }

CtLoops(labels) ==
    UNION { { WhileStatement(Call("w"), b),
              DoWhileStatement(b, Call("w")),
              ForStatement(Call("i"), Call("w"), Call("u"), b),
              ForStatement(None, Call("w"), Call("u"), b) } : b \in CtBodies(labels) }

ContinueInputs ==
    CtLoops({}) \cup { LabeledStatement("outer", s) : s \in CtLoops({"outer"}) }

ContinueOracles ==
    { [w |-> x[1], c |-> x[2], v |-> x[3]] :
        x \in { <<Bool(TRUE), Bool(FALSE)>>, <<Bool(TRUE), Bool(TRUE), Bool(FALSE)>> }
              \X { <<Bool(TRUE), Bool(FALSE)>>, <<Bool(FALSE), Bool(TRUE)>>,
                   <<Bool(TRUE), Bool(TRUE)>>, <<Bool(FALSE)>> }
              \X { <<Bool(TRUE), Bool(FALSE)>>, <<Bool(FALSE)>> } }

InitContinue ==
    /\ pc = "input"
    /\ state = InitialMapperState
    /\ input \in ContinueInputs
    /\ oracle \in ContinueOracles
    /\ lowered = NoLowering
    /\ run = NoRun

LowerContinue ==
    /\ pc = "input"
    /\ LET r == pipeline_map_statement(input, state)
       IN  /\ lowered' = [action |-> "Normal", stmt |-> r.stmt]
           /\ state' = r.state
    /\ pc' = "lowered"
    /\ UNCHANGED <<input, oracle, run>>

ExecuteContinue ==
    /\ pc = "lowered"
    /\ run' = [ref |-> ExecSeq(ContinueContext(input), StartState(oracle)),
               low |-> ExecSeq(ContinueContext(lowered.stmt), StartState(oracle)),
               blk |-> None]
    /\ pc' = "done"
    /\ UNCHANGED <<state, input, oracle, lowered>>

NextContinue == LowerContinue \/ ExecuteContinue

SpecContinue == InitContinue /\ [][NextContinue]_vars

---------------------------------------------------------------------------
(* Specification of the do-while pass on its own.                          *)

\* Bodies that call a() once and complete normally.
DoWhileBodies ==
    { CtCall("a"),
      BlockStatement(<< CtCall("a"), CtCall("b") >>),
      BlockStatement(<< IfStatement(Call("c"), CtCall("b"), None), CtCall("a") >>),
      LabeledStatement("L",
          BlockStatement(<< CtCall("a"), BreakStatement("L"), CtCall("b") >>)) }

DoWhileInputs == { DoWhileStatement(b, Call("t")) : b \in DoWhileBodies }

\* The outcomes of the test: every sequence of up to MaxFuel values.
DoWhileOracles ==
    { [t |-> x, c |-> <<y>>] :
        x \in UNION { [1..n -> {Bool(TRUE), Bool(FALSE), Num(1), Undef}] :
                         n \in 1..MaxFuel },
        y \in {Bool(TRUE), Bool(FALSE)} }

InitDoWhile ==
    /\ pc = "input"
    /\ state = InitialMapperState
    /\ input \in DoWhileInputs
    /\ oracle \in DoWhileOracles
    /\ lowered = NoLowering
    /\ run = NoRun

LowerDoWhile ==
    /\ pc = "input"
    /\ LET r == transform_do_while_statement(input, state)
       IN  /\ lowered' = [action |-> r.action, stmt |-> r.stmt]
           /\ state' = r.state
    /\ pc' = "lowered"
    /\ UNCHANGED <<input, oracle, run>>

ExecuteDoWhile ==
    /\ pc = "lowered"
    /\ run' = [ref |-> ExecSeq(ContinueContext(input), StartState(oracle)),
               low |-> ExecSeq(ContinueContext(lowered.stmt), StartState(oracle)),
               blk |-> None]
    /\ pc' = "done"
    /\ UNCHANGED <<state, input, oracle, lowered>>

NextDoWhile == LowerDoWhile \/ ExecuteDoWhile

SpecDoWhile == InitDoWhile /\ [][NextDoWhile]_vars

---------------------------------------------------------------------------
(* Properties of the continue pass and of the loop lowerings.              *)

RECURSIVE BreaksClosed(_, _)
\* Every labeled break of s names a label of `labels` or of a labeled
\* statement of s that encloses it.
BreaksClosed(s, labels) ==
    CASE s.t = "break"   -> s.label = NoLabel \/ s.label \in labels
      [] s.t = "block"   -> \A i \in 1..Len(s.body) : BreaksClosed(s.body[i], labels)
      [] s.t = "if"      -> /\ BreaksClosed(s.cons, labels)
                            /\ s.alt = None \/ BreaksClosed(s.alt, labels)
      [] s.t = "labeled" -> BreaksClosed(s.stmt, labels \cup {s.label})
      [] s.t \in {"while", "dowhile", "for"} -> BreaksClosed(s.stmt, labels)
      [] OTHER -> TRUE

RECURSIVE HasContinue(_)
HasContinue(s) ==
    CASE s.t = "continue" -> TRUE
      [] s.t = "block"    -> \E i \in 1..Len(s.body) : HasContinue(s.body[i])
      [] s.t = "if"       -> HasContinue(s.cons) \/ (s.alt # None /\ HasContinue(s.alt))
      [] s.t \in {"labeled", "while", "dowhile", "for"} -> HasContinue(s.stmt)
      [] OTHER -> FALSE

RECURSIVE TargetsLoop(_, _, _)
\* Whether s, a part of the body of a loop with the labels `labels`, holds
\* a continue of that loop; nested tells that s lies in an inner loop.
TargetsLoop(s, labels, nested) ==
    CASE s.t = "continue" -> IF s.label = NoLabel THEN ~nested ELSE s.label \in labels
      [] s.t = "block"    -> \E i \in 1..Len(s.body) : TargetsLoop(s.body[i], labels, nested)
      [] s.t = "if"       -> \/ TargetsLoop(s.cons, labels, nested)
                             \/ (s.alt # None /\ TargetsLoop(s.alt, labels, nested))
      [] s.t = "labeled"  -> TargetsLoop(s.stmt, labels, nested)
      [] s.t \in {"while", "dowhile", "for"} -> TargetsLoop(s.stmt, labels, TRUE)
      [] OTHER -> FALSE

RECURSIVE GeneratedWrappers(_)
\* The labeled statements of s whose label is not a label of the input.
GeneratedWrappers(s) ==
    CASE s.t = "labeled" ->
            (IF s.label = "outer" THEN {} ELSE {s}) \cup GeneratedWrappers(s.stmt)
      [] s.t = "block"   -> UNION { GeneratedWrappers(s.body[i]) : i \in 1..Len(s.body) }
      [] s.t = "if"      -> GeneratedWrappers(s.cons)
                            \cup (IF s.alt = None THEN {} ELSE GeneratedWrappers(s.alt))
      [] s.t \in {"while", "dowhile", "for"} -> GeneratedWrappers(s.stmt)
      [] OTHER -> {}

CtLowered == pc \in {"lowered", "done"}

\* The loop of the input and the labels it carries.
CtLoop == IF input.t = "labeled" THEN input.stmt ELSE input
CtLabels == IF input.t = "labeled" THEN {input.label} ELSE {}
CtTargeted == TargetsLoop(CtLoop.stmt, CtLabels, FALSE)

\* The while loop that stands for the input's loop in the output, and the
\* statements of its body.
CtWhile ==
    LET s == IF lowered.stmt.t = "labeled" THEN lowered.stmt.stmt ELSE lowered.stmt
    IN  IF s.t = "block" THEN s.body[Len(s.body)] ELSE s
CtWhileBody == CtWhile.stmt.body

\* The calls of next_ident_name made for labels: all but the one of a
\* do-while lowering.
CtLabelsDrawn == state.id_counter - (IF CtLoop.t = "dowhile" THEN 1 ELSE 0)

\* C8: whatever the number, mix and order of the continues of a loop, no
\* continue is left, one label is drawn per wrapped loop body (a label is
\* drawn at most once per loop), and every labeled break of the output has
\* an enclosing labeled statement with its label; hence the output runs as
\* the input does.
C8_ContinueLabelsSharedAndEnclosed ==
    /\ CtLowered
       => /\ ~HasContinue(lowered.stmt)
          /\ BreaksClosed(lowered.stmt, {})
          /\ CtLabelsDrawn = Cardinality(GeneratedWrappers(lowered.stmt))
    /\ pc = "done"
       => run.low.k = run.ref.k /\ run.low.st.tr = run.ref.st.tr

FirstFalsy(outcomes) ==
    IF \E i \in 1..Len(outcomes) : ~Truthy(outcomes[i])
    THEN CHOOSE i \in 1..Len(outcomes) :
            ~Truthy(outcomes[i]) /\ \A j \in 1..(i - 1) : Truthy(outcomes[j])
    ELSE Len(outcomes) + 1

\* C10: the do-while lowering returns Revisit with
\* { let s = true; while (s) { body; s = t; } }, s being the one name drawn;
\* and the output runs body and t in the same order and number as the
\* input: body first, t once after each body, until the first falsy t.
C10_DoWhileLowering ==
    /\ CtLowered
       => /\ lowered.action = "Revisit"
          /\ state.id_counter = InitialMapperState.id_counter + 1
          /\ lowered.stmt =
                BlockStatement(<<
                    VariableDeclaration("let", next_ident_name(InitialMapperState).name,
                                        BooleanLiteral(TRUE)),
                    WhileStatement(Identifier(next_ident_name(InitialMapperState).name),
                        BlockStatement(<<
                            input.stmt,
                            ExpressionStatement(
                                Assignment(next_ident_name(InitialMapperState).name,
                                           input.test)) >>)) >>)
    /\ pc = "done"
       => /\ run.low.k = run.ref.k
          /\ run.low.st.tr = run.ref.st.tr
          /\ run.ref.k = "normal"
             => SelectSeq(run.low.st.tr, LAMBDA f : f \in {"a", "t"})
                = [i \in 1..(2 * FirstFalsy(oracle.t)) |->
                      IF i % 2 = 1 THEN "a" ELSE "t"]

\* A do-while whose test was truthy once and then falsy: two rounds.
C10_Witness ==
    /\ pc = "done" /\ input.t = "dowhile"
    /\ run.low.k = "normal"
    /\ Count(run.low.st.tr, "t") = 2
    /\ Count(run.low.st.tr, "a") = 2

---------------------------------------------------------------------------
(* Specification of the for pass on its own.                               *)
(*                                                                         *)
(* Every combination of a missing, an expression and a declaration init,   *)
(* a missing and a present test, a missing and a present update.           *)

ForNInits == { None, Call("i"), Assignment("x", Call("i")),
               VariableDeclaration("let", "x", Call("i")) }

ForNTests == { None, Call("w") }

ForNUpdates == { None, Call("u") }

ForNBodies ==
    { CtCall("a"),
      BlockStatement(<< CtCall("a"), CtCall("b") >>),
      BlockStatement(<< IfStatement(Call("c"), BreakStatement(NoLabel), None),
                        CtCall("a") >>) }

ForNInputs ==
    { ForStatement(i, w, u, b) :
        i \in ForNInits, w \in ForNTests, u \in ForNUpdates, b \in ForNBodies }

ForNOracles ==
    { [w |-> x, c |-> y] :
        x \in { <<Bool(FALSE)>>, <<Bool(TRUE), Bool(FALSE)>> },
        y \in { <<Bool(FALSE), Bool(TRUE)>>, <<Bool(TRUE)>> } }

InitForN ==
    /\ pc = "input"
    /\ state = InitialMapperState
    /\ input \in ForNInputs
    /\ oracle \in ForNOracles
    /\ lowered = NoLowering
    /\ run = NoRun

LowerForN ==
    /\ pc = "input"
    /\ LET r == transform_for_n_statement(input, state)
       IN  /\ lowered' = [action |-> r.action, stmt |-> r.stmt]
           /\ state' = r.state
    /\ pc' = "lowered"
    /\ UNCHANGED <<input, oracle, run>>

ExecuteForN ==
    /\ pc = "lowered"
    /\ run' = [ref |-> ExecSeq(ContinueContext(input), StartState(oracle)),
               low |-> ExecSeq(ContinueContext(lowered.stmt), StartState(oracle)),
               blk |-> None]
    /\ pc' = "done"
    /\ UNCHANGED <<state, input, oracle, lowered>>

NextForN == LowerForN \/ ExecuteForN

SpecForN == InitForN /\ [][NextForN]_vars

\* The while statement of a lowered for: the output itself, or the second
\* statement of the output block.
ForNWhile ==
    IF input.init = None THEN lowered.stmt ELSE lowered.stmt.body[2]

\* C11: the for lowering gives while (test) { body; update; } with `true`
\* for an absent test and no statement for an absent update; alone and with
\* action Normal when there is no init; with action Revisit, as the second
\* statement of a block whose first statement is the init (an expression
\* statement for an expression, the declaration itself for a declaration)
\* when there is one.
C11_ForLowering ==
    (pc \in {"lowered", "done"} /\ input.t = "for")
    => /\ lowered.action = (IF input.init = None THEN "Normal" ELSE "Revisit")
       /\ input.init # None
          => /\ lowered.stmt.t = "block"
             /\ Len(lowered.stmt.body) = 2
             /\ input.init.t = "decl" => lowered.stmt.body[1] = input.init
             /\ input.init.t # "decl"
                => /\ lowered.stmt.body[1].t = "expr"
                   /\ lowered.stmt.body[1].e = input.init
       /\ ForNWhile.t = "while"
       /\ ForNWhile.test = (IF input.test = None THEN BooleanLiteral(TRUE)
                            ELSE input.test)
       /\ ForNWhile.stmt.t = "block"
       /\ ForNWhile.stmt.body[1] = input.stmt
       /\ Len(ForNWhile.stmt.body) = (IF input.update = None THEN 1 ELSE 2)
       /\ input.update # None
          => /\ ForNWhile.stmt.body[2].t = "expr"
             /\ ForNWhile.stmt.body[2].e = input.update
       /\ state = InitialMapperState

\* A for with a declaration init, no test and an update, lowered and run.
C11_Witness ==
    /\ pc = "done" /\ input.t = "for"
    /\ input.init.t = "decl" /\ input.test = None /\ input.update # None
    /\ lowered.action = "Revisit"
    /\ run.low.st.tr # <<>>

---------------------------------------------------------------------------
(* The for-in / for-of header pass (for_header.rs).                        *)

create_variable_declarator(name, init) ==
    VariableDeclarator(BindingIdentifier(name), init)

create_variable_declaration_kind(kind, name, init) ==
    VariableDeclaration(kind, name, init)

\* A declaration with a pattern gets a fresh name in the header and a
\* declaration of that name to put before the body; a pattern or member
\* target gets a fresh name as target and an assignment to put before the
\* body; any other header is returned as it is, with no statement.
transform_for_header(left, st) ==
    CASE left.t = "vardecl"
         /\ left.declarations[1].id.t \in {"arrpat", "objpat", "assignpat"} ->
            [left |-> VariableDeclarationOf(left.kind, <<
                          create_variable_declarator(
                              next_ident_name(st).name,
                              left.declarations[1].init) >>),
             pattern_stmt |-> create_variable_declaration_kind(
                                  left.kind, next_ident_name(st).name,
                                  Identifier(next_ident_name(st).name)),
             state |-> next_ident_name(st).state]
      [] left.t = "vardecl"
         /\ left.declarations[1].id.t \notin {"arrpat", "objpat", "assignpat"} ->
            [left |-> VariableDeclarationOf(left.kind, << left.declarations[1] >>),
             pattern_stmt |-> None, state |-> st]
      [] left.t = "target_pattern" ->
            [left |-> AssignmentTargetIdentifier(next_ident_name(st).name),
             pattern_stmt |-> create_expression_statement(
                                  create_assignment_expression_name(
                                      next_ident_name(st).name,
                                      Identifier(next_ident_name(st).name))),
             state |-> next_ident_name(st).state]
      [] left.t = "target_member" ->
            [left |-> AssignmentTargetIdentifier(next_ident_name(st).name),
             pattern_stmt |-> create_expression_statement(
                                  AssignmentMember(left.me,
                                      Identifier(next_ident_name(st).name))),
             state |-> next_ident_name(st).state]
      [] OTHER -> [left |-> left, pattern_stmt |-> None, state |-> st]

---------------------------------------------------------------------------
(* The for-in and for-of passes (stmt_for_in.rs, stmt_for_of.rs).          *)

\* A header the pass cannot lower; the code panics on it.
Panic == [t |-> "panic"]

\* <lhs> = $next.value, as a declaration of the header's kind or as an
\* assignment.
for_next_value_stmt(new_left, rhs) ==
    CASE new_left.t = "vardecl" /\ new_left.declarations[1].id.t = "bid" ->
            create_variable_declaration_kind(
                new_left.kind, new_left.declarations[1].id.name, rhs)
      [] new_left.t = "target_id" ->
            create_expression_statement(Assignment(new_left.name, rhs))
      [] OTHER -> Panic

\* { const it = fn(right); let next;
\*   while (next = it.next()) { if (next.done === true) break; lhs; body } }
for_while_block(fn, right, iterator_var, next_var, next_value_stmt, new_body) ==
    BlockStatement(<<
        create_variable_declaration_const(
            iterator_var, CallExpression(Identifier(fn), << right >>)),
        create_variable_declaration_let(next_var, None),
        WhileStatement(
            create_assignment_expression_name(
                next_var,
                CallExpression(
                    StaticMemberExpression(Identifier(iterator_var), "next"), <<>>)),
            BlockStatement(<<
                IfStatement(
                    Binary("===",
                           StaticMemberExpression(Identifier(next_var), "done"),
                           BooleanLiteral(TRUE)),
                    BreakStatement(NoLabel), None),
                next_value_stmt,
                new_body >>)) >>)

\* The body with the header's statement before it, when there is one.
for_new_body(h, body) ==
    IF h.pattern_stmt # None THEN BlockStatement(<< h.pattern_stmt, body >>)
    ELSE body

\* The two names drawn after the header's: the iterator and the result.
for_lowering(fn, for_stmt, h, iterator_var, next_var) ==
    [revisit |-> TRUE,
     stmt    |-> for_while_block(
                     fn, for_stmt.right, iterator_var.name, next_var.name,
                     for_next_value_stmt(
                         h.left,
                         StaticMemberExpression(Identifier(next_var.name), "value")),
                     for_new_body(h, for_stmt.stmt)),
     state   |-> next_var.state]

for_of_value_before_test(for_stmt, st) ==
    LET h == transform_for_header(for_stmt.left, st)
        l == for_lowering("$forOf", for_stmt, h, next_ident_name(h.state),
                          next_ident_name(next_ident_name(h.state).state))
        w == l.stmt.body[3]
    IN  [l EXCEPT !.stmt.body[3].stmt.body =
            << w.stmt.body[2], w.stmt.body[1], w.stmt.body[3] >>]

transform_for_of_statement(for_stmt, st) ==
    LET h == transform_for_header(for_stmt.left, st)
    IN  for_lowering("$forOf", for_stmt, h, next_ident_name(h.state),
                     next_ident_name(next_ident_name(h.state).state))

transform_for_in_statement(for_stmt, st) ==
    LET h == transform_for_header(for_stmt.left, st)
    IN  for_lowering("$forIn", for_stmt, h, next_ident_name(h.state),
                     next_ident_name(next_ident_name(h.state).state))

---------------------------------------------------------------------------
(* Specification of the for-in and for-of passes on their own.             *)
(*                                                                         *)
(* The loop iterates over r(), in                                          *)
(*     let seen = 0; let x = 0; let o = o(); LOOP; k();                    *)
(* The iterator's next() returns the objects r1, r2, ..., whose `done`     *)
(* the oracle's heap holds; past the last of them it returns undefined.    *)

ForXContext(s) ==
    << VariableDeclaration("let", "seen", NumberLiteral(0)),
       VariableDeclaration("let", "x", NumberLiteral(0)),
       VariableDeclaration("let", "o", Call("o")),
       s, CtCall("k") >>

ForXPatterns ==
    { ArrayPattern(<< BindingIdentifier("a") >>, None),
      ObjectPattern(<< BindingProperty(IdentifierName("a"),
                                       BindingIdentifier("b"), FALSE) >>, None),
      ArrayPattern(<< None, AssignmentPattern(BindingIdentifier("a"),
                                              NumberLiteral(7)) >>, None) }

ForXSimpleLefts ==
    { VariableDeclarationOf(k, << VariableDeclarator(BindingIdentifier("x"), None) >>) :
        k \in {"let", "const", "var"} }
    \cup { AssignmentTargetIdentifier("x") }

ForXPatternLefts ==
    { VariableDeclarationOf(k, << VariableDeclarator(p, None) >>) :
        k \in {"let", "const"}, p \in ForXPatterns }
    \cup { AssignmentTargetPattern(p) : p \in ForXPatterns }

ForXMemberLefts ==
    { MemberAssignmentTarget(StaticMemberExpression(Identifier("o"), "key")) }

ForXBodies ==
    { CtCall("a"),
      BlockStatement(<< CtCall("a"),
                        ExpressionStatement(Assignment("seen", Identifier("x"))) >>) }

ForXInputs ==
    { ForOfStatement(l, Call("r"), b) :
        l \in ForXSimpleLefts \cup ForXPatternLefts \cup ForXMemberLefts,
        b \in ForXBodies }
    \cup
    { ForInStatement(l, Call("r"), b) :
        l \in ForXSimpleLefts \cup ForXPatternLefts \cup ForXMemberLefts,
        b \in ForXBodies }

\* The `done` of the results next() returns, in order.
ForXResults ==
    { <<>>, <<TRUE>>, <<FALSE>>, <<FALSE, TRUE>>, <<FALSE, FALSE>>,
      <<FALSE, FALSE, TRUE>> }

ForXResultName(i) == "r" \o ToString(i)

ForXHeap(results) ==
    [p \in { ForXResultName(i) \o ".done" : i \in 1..Len(results) } |->
        Bool(results[CHOOSE i \in 1..Len(results) :
                        p = ForXResultName(i) \o ".done"])]

ForXOracle(results) ==
    [f \in {"r", "$forOf", "$forIn", "o", "next", "heap"} |->
        CASE f = "next" -> [i \in 1..Len(results) |-> Obj(ForXResultName(i))]
          [] f = "heap" -> ForXHeap(results)
          [] f = "r"    -> << Obj("src") >>
          [] f = "o"    -> << Obj("o") >>
          [] OTHER      -> << Obj("it") >>]

ForXOracles == { ForXOracle(results) : results \in ForXResults }

InitForX ==
    /\ pc = "input"
    /\ state = InitialMapperState
    /\ input \in ForXInputs
    /\ oracle \in ForXOracles
    /\ lowered = NoLowering
    /\ run = NoRun

LowerForOf ==
    /\ pc = "input"
    /\ input.t = "forof"
    /\ LET r == transform_for_of_statement(input, state)
       IN  /\ lowered' = [action |-> IF r.revisit THEN "Revisit" ELSE "Normal",
                          stmt |-> r.stmt]
           /\ state' = r.state
    /\ pc' = "lowered"
    /\ UNCHANGED <<input, oracle, run>>

LowerForIn ==
    /\ pc = "input"
    /\ input.t = "forin"
    /\ LET r == transform_for_in_statement(input, state)
       IN  /\ lowered' = [action |-> IF r.revisit THEN "Revisit" ELSE "Normal",
                          stmt |-> r.stmt]
           /\ state' = r.state
    /\ pc' = "lowered"
    /\ UNCHANGED <<input, oracle, run>>

ExecuteForX ==
    /\ pc = "lowered"
    /\ run' = [ref |-> None,
               low |-> ExecSeq(ForXContext(lowered.stmt), StartState(oracle)),
               blk |-> None]
    /\ pc' = "done"
    /\ UNCHANGED <<state, input, oracle, lowered>>

NextForX == LowerForOf \/ LowerForIn \/ ExecuteForX

SpecForX == InitForX /\ [][NextForX]_vars

---------------------------------------------------------------------------
(* Properties of the for-in and for-of passes.                             *)

RECURSIVE BoundNames(_)
\* The names a binding pattern binds.
BoundNames(p) ==
    CASE p.t = "bid"       -> { p.name }
      [] p.t = "assignpat" -> BoundNames(p.left)
      [] p.t = "objpat" ->
            UNION { BoundNames(p.properties[i].value) : i \in DOMAIN p.properties }
            \cup (IF p.rest = None THEN {} ELSE BoundNames(p.rest))
      [] p.t = "arrpat" ->
            UNION { BoundNames(p.elements[i]) : i \in DOMAIN p.elements }
            \cup (IF p.rest = None THEN {} ELSE BoundNames(p.rest))
      [] OTHER -> {}

\* The pattern of the input's header, None when the header is not one.
ForXPattern ==
    CASE input.left.t = "target_pattern" -> input.left.pattern
      [] input.left.t = "vardecl" /\ input.left.declarations[1].id.t # "bid" ->
            input.left.declarations[1].id
      [] OTHER -> None

\* The statements of the lowered loop's body: the done test, the header's
\* assignment, the body.
ForXWhileBody == lowered.stmt.body[3].stmt.body

\* The name of the first temporary drawn.
ForXFirstName == next_ident_name(InitialMapperState).name

\* The results of next() that were not done before the first done one.
ForXDone(i) == oracle.heap[ForXResultName(i) \o ".done"] = Bool(TRUE)
ForXRounds ==
    IF \E i \in DOMAIN oracle.next : ForXDone(i)
    THEN (CHOOSE i \in DOMAIN oracle.next :
             ForXDone(i) /\ \A j \in 1..(i - 1) : ~ForXDone(j)) - 1
    ELSE Len(oracle.next)

\* The names of pattern p bound from value v, with nothing else declared.
ForXBound(p, v) == BindingInitialization(p, v, StartState(oracle)).st.env

\* C12: for a pattern P in the header of a for-in / for-of, the header gets
\* one identifier with a fresh name N, and the statement put before the
\* body destructures P from N: `<kind> P = N` for a declaration, `P = N`
\* for an assignment target; so in a run every name bound by P holds what P
\* binds from the last iteration value when the loop is over.
C12_HeaderPatternDestructured ==
    (pc \in {"lowered", "done"} /\ ForXPattern # None)
    => /\ ForXWhileBody[3].t = "block"
       /\ Len(ForXWhileBody[3].body) = 2
       /\ ForXWhileBody[3].body[2] = input.stmt
       /\ input.left.t = "vardecl"
          => /\ ForXWhileBody[2].t = "decl"
             /\ ForXWhileBody[2].kind = input.left.kind
             /\ ForXWhileBody[2].name = ForXFirstName
             /\ ForXWhileBody[3].body[1].t \in {"decl", "vardecl"}
             /\ ForXWhileBody[3].body[1].kind = input.left.kind
             /\ Declarations(ForXWhileBody[3].body[1])
                = << VariableDeclarator(ForXPattern, Identifier(ForXFirstName)) >>
       /\ input.left.t = "target_pattern"
          => /\ ForXWhileBody[2].t = "expr"
             /\ ForXWhileBody[2].e.t = "assign"
             /\ ForXWhileBody[2].e.name = ForXFirstName
             /\ ForXWhileBody[3].body[1]
                = ExpressionStatement(
                      AssignmentOfPattern(ForXPattern, Identifier(ForXFirstName)))
       /\ (pc = "done" /\ ForXRounds > 0)
          => \A n \in BoundNames(ForXPattern) :
                /\ n \in DOMAIN run.low.st.env
                /\ run.low.st.env[n]
                   = ForXBound(ForXPattern,
                               Obj(ForXResultName(ForXRounds) \o ".value"))[n]


\* The calls and property reads of the lowered loop from result i on: one
\* next() per iteration; `done` read of every result; `value` read and the
\* body's call a() for a result that is not done.  Past the last result
\* next() returns undefined and the loop is over.
RECURSIVE ForXTrace(_)
ForXTrace(i) ==
    IF i > Len(oracle.next) THEN << "next" >>
    ELSE IF ForXDone(i)
    THEN << "next", "get " \o ForXResultName(i) \o ".done" >>
    ELSE << "next", "get " \o ForXResultName(i) \o ".done",
            "get " \o ForXResultName(i) \o ".value", "a" >>
         \o ForXTrace(i + 1)

ForXFunction == IF input.t = "forof" THEN "$forOf" ELSE "$forIn"

ForXSimple == input.left \in ForXSimpleLefts

---------------------------------------------------------------------------
(* The variable-declaration pass (stmt_var_decl.rs).                       *)

\* A declarator made by the builders has kind Let, whatever the kind of the
\* declaration it is put in (builder.rs: create_variable_declarator,
\* create_variable_declarator_pattern).
create_variable_declarator_pattern(pattern, init) ==
    [kind |-> "let", id |-> pattern, init |-> init]

create_variable_declaration_kind_declr(kind, declr) ==
    VariableDeclarationOf(kind, << declr >>)

\* The declarators of a declaration, each with its own kind: the kind of
\* the declaration for a parsed declarator, Let for one a builder made.
VariableDeclarators(s) ==
    IF s.t = "decl"
    THEN << [kind |-> "let", id |-> BindingIdentifier(s.name), init |-> s.init] >>
    ELSE [i \in 1..Len(s.declarations) |->
            [kind |-> IF "kind" \in DOMAIN s.declarations[i]
                      THEN s.declarations[i].kind ELSE s.kind,
             id   |-> s.declarations[i].id,
             init |-> s.declarations[i].init]]

IsVariableDeclaration(s) == s.t \in {"decl", "vardecl"}

\* Whether every variable declaration directly in body has one declarator,
\* with an initializer and an identifier as its binding.
confirm_var_decl_shape(body) ==
    \A i \in 1..Len(body) :
        IsVariableDeclaration(body[i])
        => /\ Len(VariableDeclarators(body[i])) = 1
           /\ VariableDeclarators(body[i])[1].init # None
           /\ VariableDeclarators(body[i])[1].id.t = "bid"

\* new_body and state as the pass extends them, and whether a declarator
\* was changed so far.
VarDeclOutput(new_body, st, changed) ==
    [new_body |-> new_body, state |-> st, changed |-> changed]

VarDeclPush(o, stmt) == [o EXCEPT !.new_body = Append(@, stmt)]

\* The name that stands for the initializer, with the output: the
\* identifier itself, or else a fresh name declared with the initializer.
var_decl_rhs_fresh(init, o, tmp) ==
    [rhs |-> tmp.name,
     out |-> VarDeclPush([o EXCEPT !.state = tmp.state],
                         create_variable_declaration_kind("let", tmp.name, init))]

var_decl_rhs(init, o) ==
    IF init.t = "id" THEN [rhs |-> init.name, out |-> o]
    ELSE var_decl_rhs_fresh(init, o, next_ident_name(o.state))

\* The state after n names were drawn.
RECURSIVE next_ident_names(_, _)
next_ident_names(st, n) ==
    IF n = 0 THEN st ELSE next_ident_names(next_ident_name(st).state, n - 1)

\* Whether the key of a property gets a name of its own: it is an
\* expression that is not an identifier.
KeyIsAliased(prop) == prop.key.t \notin {"idname", "id"}

AliasedBefore(properties, i) ==
    Cardinality({ j \in 1..(i - 1) : KeyIsAliased(properties[j]) })

\* final_prop_names: for every property the name of its key and whether it
\* is computed; the names of the aliased keys are drawn here, all of them,
\* in source order.
final_prop_names(properties, st) ==
    [names |-> [i \in 1..Len(properties) |->
                   [name |-> IF KeyIsAliased(properties[i])
                             THEN next_ident_name(
                                      next_ident_names(
                                          st, AliasedBefore(properties, i))).name
                             ELSE properties[i].key.name,
                    computed |-> properties[i].computed]],
     state |-> next_ident_names(st, AliasedBefore(properties, Len(properties) + 1))]

\* if (name === undefined) name = default_value_expr;
var_decl_default(name, default_value_expr) ==
    IfStatement(Binary("===", Identifier(name), Identifier("undefined")),
                create_expression_statement(Assignment(name, default_value_expr)),
                None)

\* let name = rhs.name; if (name === undefined) name = default;
\* The key of the property is not used.
transform_var_decl_shorthand_with_default(key, name, rhs, default_value_expr, o) ==
    VarDeclPush(
        VarDeclPush(o, create_variable_declaration_kind(
                           "let", name, StaticMemberExpression(rhs, name))),
        var_decl_default(name, default_value_expr))

\* rhs.key or rhs[key] for the key of a property.
var_decl_key_read(key, rhs) ==
    IF key.t = "idname" THEN StaticMemberExpression(rhs, key.name)
    ELSE ComputedMemberExpression(rhs, key)

RECURSIVE transform_var_decl_declr(_, _)
RECURSIVE transform_var_decl_properties(_, _, _, _, _)
RECURSIVE transform_var_decl_elements(_, _, _, _)

\* let tmp = read; the default when there is one; then the pattern lowered
\* as a declarator of its own, initialised from tmp.
var_decl_nested(read, pattern, default_value_expr, o, tmp) ==
    transform_var_decl_declr(
        create_variable_declarator_pattern(pattern, Identifier(tmp.name)),
        IF default_value_expr = None
        THEN VarDeclPush([o EXCEPT !.state = tmp.state],
                         create_variable_declaration_kind("let", tmp.name, read))
        ELSE VarDeclPush(
                 VarDeclPush([o EXCEPT !.state = tmp.state],
                             create_variable_declaration_kind("let", tmp.name, read)),
                 var_decl_default(tmp.name, default_value_expr)))

transform_var_decl_obj_pattern_with_default(key, pattern, rhs, default_value_expr, o) ==
    var_decl_nested(var_decl_key_read(key, rhs), pattern, default_value_expr,
                    o, next_ident_name(o.state))

transform_var_decl_obj_pattern_no_default(key, pattern, rhs, o) ==
    var_decl_nested(var_decl_key_read(key, rhs), pattern, None,
                    o, next_ident_name(o.state))

transform_var_decl_arr_pattern_with_default(index, left, rhs, default_value_expr, o) ==
    var_decl_nested(ComputedMemberExpression(rhs, NumberLiteral(index)),
                    left, default_value_expr, o, next_ident_name(o.state))

transform_var_decl_arr_pattern_no_default(index, pattern, rhs, o) ==
    var_decl_nested(ComputedMemberExpression(rhs, NumberLiteral(index)),
                    pattern, None, o, next_ident_name(o.state))

\* One property whose key has the name new_key_name: its binding declared
\* from rhs.key / rhs[key], or its pattern lowered from a temporary.
transform_var_decl_property_value(decl_kind, rhs, prop, new_key_name, new_prop_key, o) ==
    CASE prop.value.t = "bid" ->
            VarDeclPush(o, create_variable_declaration_kind(
                decl_kind, prop.value.name,
                IF prop.computed
                THEN ComputedMemberExpression(Identifier(rhs), Identifier(new_key_name))
                ELSE StaticMemberExpression(Identifier(rhs), new_key_name)))
      [] prop.value.t = "assignpat" /\ prop.value.left.t = "bid" ->
            transform_var_decl_shorthand_with_default(
                new_prop_key, prop.value.left.name, Identifier(rhs),
                prop.value.right, o)
      [] prop.value.t = "assignpat" /\ prop.value.left.t # "bid" ->
            transform_var_decl_obj_pattern_with_default(
                new_prop_key, prop.value.left, Identifier(rhs), prop.value.right, o)
      [] prop.value.t \in {"objpat", "arrpat"} ->
            transform_var_decl_obj_pattern_no_default(
                new_prop_key, prop.value, Identifier(rhs), o)

\* A computed key that is not an identifier is first bound to its name
\* with const.
transform_var_decl_property(decl_kind, rhs, prop, new_key_name, o) ==
    transform_var_decl_property_value(
        decl_kind, rhs, prop, new_key_name,
        IF prop.computed THEN Identifier(new_key_name)
        ELSE IdentifierName(new_key_name),
        IF prop.computed /\ prop.key.t # "id"
        THEN VarDeclPush(o, create_variable_declaration_kind(
                                "const", new_key_name, prop.key))
        ELSE o)

\* The properties from the i-th on, in source order.
transform_var_decl_properties(declr, rhs, names, i, o) ==
    IF i > Len(declr.id.properties) THEN o
    ELSE transform_var_decl_properties(
             declr, rhs, names, i + 1,
             transform_var_decl_property(
                 declr.kind, rhs, declr.id.properties[i], names[i].name, o))

\* <kind> rest = $rest(rhs, [keys]): a string for a key that is not
\* computed, the identifier for one that is.
transform_var_decl_object_rest(declr, rhs, names, o) ==
    IF declr.id.rest = None THEN [o EXCEPT !.changed = TRUE]
    ELSE [VarDeclPush(o, create_variable_declaration_kind(
              declr.kind, declr.id.rest.name,
              CallExpression(
                  Identifier("$rest"),
                  << Identifier(rhs),
                     ArrayExpression(
                         [i \in 1..Len(names) |->
                             IF names[i].computed THEN Identifier(names[i].name)
                             ELSE StringLiteral(names[i].name)]) >>)))
          EXCEPT !.changed = TRUE]

transform_var_decl_object_named(declr, rhs, names, o) ==
    transform_var_decl_object_rest(
        declr, rhs, names.names,
        transform_var_decl_properties(
            declr, rhs, names.names, 1, [o EXCEPT !.state = names.state]))

transform_var_decl_object(declr, r) ==
    transform_var_decl_object_named(
        declr, r.rhs, final_prop_names(declr.id.properties, r.out.state), r.out)

\* One element at index, holes skipped.
transform_var_decl_element(decl_kind, rhs, element, index, o) ==
    CASE element = None -> o
      [] element # None /\ element.t = "bid" ->
            VarDeclPush(o, create_variable_declaration_kind(
                decl_kind, element.name,
                ComputedMemberExpression(Identifier(rhs), NumberLiteral(index))))
      [] element # None /\ element.t = "assignpat" ->
            transform_var_decl_arr_pattern_with_default(
                index, element.left, Identifier(rhs), element.right, o)
      [] element # None /\ element.t \in {"objpat", "arrpat"} ->
            transform_var_decl_arr_pattern_no_default(
                index, element, Identifier(rhs), o)

\* The elements from the i-th on, in source order.
transform_var_decl_elements(declr, rhs, i, o) ==
    IF i > Len(declr.id.elements) THEN o
    ELSE transform_var_decl_elements(
             declr, rhs, i + 1,
             transform_var_decl_element(
                 declr.kind, rhs, declr.id.elements[i], i - 1, o))

\* An identifier as rest is declared from rhs.slice(elements_len); an
\* object pattern as rest is put in a declaration initialised from rhs.
transform_var_decl_array_rest(declr, rhs, o) ==
    CASE declr.id.rest = None -> [o EXCEPT !.changed = TRUE]
      [] declr.id.rest # None /\ declr.id.rest.t = "bid" ->
            [VarDeclPush(o, create_variable_declaration_kind(
                 declr.kind, declr.id.rest.name,
                 CallExpression(
                     StaticMemberExpression(Identifier(rhs), "slice"),
                     << NumberLiteral(Len(declr.id.elements)) >>)))
             EXCEPT !.changed = TRUE]
      [] declr.id.rest # None /\ declr.id.rest.t = "objpat" ->
            [VarDeclPush(o, create_variable_declaration_kind_declr(
                 declr.kind,
                 create_variable_declarator_pattern(
                     declr.id.rest, Identifier(rhs))))
             EXCEPT !.changed = TRUE]

transform_var_decl_array(declr, r) ==
    transform_var_decl_array_rest(
        declr, r.rhs, transform_var_decl_elements(declr, r.rhs, 1, r.out))

\* One declarator: an identifier is declared again as it is; a pattern is
\* taken apart into declarations of its names.
transform_var_decl_declr(declr, o) ==
    CASE declr.id.t = "bid" ->
            VarDeclPush(o, create_variable_declaration_kind(
                               declr.kind, declr.id.name, declr.init))
      [] declr.id.t = "objpat" ->
            transform_var_decl_object(declr, var_decl_rhs(declr.init, o))
      [] declr.id.t = "arrpat" ->
            transform_var_decl_array(declr, var_decl_rhs(declr.init, o))

\* The declarators of one declaration, each as a declaration of its own.
RECURSIVE transform_var_decl_decrs(_, _)
transform_var_decl_decrs(decrs, o) ==
    IF decrs = <<>> THEN o
    ELSE transform_var_decl_decrs(
             Tail(decrs), transform_var_decl_declr(Head(decrs), o))

\* The declaration kept as it is, whatever its declarators.
var_decl_any_decr_kept(var_decl, o) == VarDeclPush(o, var_decl)

transform_var_decl_any_decr(var_decl, o) ==
    transform_var_decl_decrs(
        VariableDeclarators(var_decl),
        IF Len(VariableDeclarators(var_decl)) = 1 THEN o
        ELSE [o EXCEPT !.changed = TRUE])

\* The statements of the block: variable declarations transformed, the
\* others kept.
RECURSIVE transform_var_decl_body(_, _)
transform_var_decl_body(body, o) ==
    IF body = <<>> THEN o
    ELSE transform_var_decl_body(
             Tail(body),
             IF IsVariableDeclaration(Head(body))
             THEN transform_var_decl_any_decr(Head(body), o)
             ELSE VarDeclPush(o, Head(body)))

var_decl_block(o) ==
    [action |-> IF o.changed THEN "Revisit" ELSE "Normal",
     stmt   |-> BlockStatement(o.new_body),
     state  |-> o.state]

\* A pass that asks for a revisit whenever the shape is not confirmed,
\* whether or not it changed a declarator.
var_decl_revisit_unconfirmed(block, st) ==
    IF confirm_var_decl_shape(block.body)
    THEN [action |-> "Normal", stmt |-> block, state |-> st]
    ELSE [ var_decl_block(
               transform_var_decl_body(block.body, VarDeclOutput(<<>>, st, FALSE)))
           EXCEPT !.action = "Revisit" ]

transform_var_decl_statement(block, st) ==
    IF confirm_var_decl_shape(block.body)
    THEN [action |-> "Normal", stmt |-> block, state |-> st]
    ELSE var_decl_block(
             transform_var_decl_body(block.body, VarDeclOutput(<<>>, st, FALSE)))

---------------------------------------------------------------------------
(* Specification of the variable-declaration pass on its own.              *)
(*                                                                         *)
(* The block sits in                                                       *)
(*     let y = y(); let k = "p"; BLOCK; e();                               *)
(* Patterns are initialised from y or from r(), which returns the same     *)
(* object; a computed key is k or q(); a default is d().  The oracle's     *)
(* heap says which properties of y hold undefined.  The pass is applied    *)
(* again to its own output as long as it answers Revisit.                  *)

VarDeclContext(block) ==
    << VariableDeclaration("let", "y", Call("y")),
       VariableDeclaration("let", "k", StringLiteral("p")),
       block, CtCall("e") >>

VdProperty(key, value) ==
    BindingProperty(IdentifierName(key), BindingIdentifier(value), FALSE)

VdDefault(name) == AssignmentPattern(BindingIdentifier(name), Call("d"))

\* Object patterns: properties, defaults, nested patterns, computed keys
\* and rest.
VarDeclObjectPatterns ==
    { ObjectPattern(<< VdProperty("a", "a"), VdProperty("b", "b") >>, None),
      ObjectPattern(<< BindingProperty(IdentifierName("a"), VdDefault("a"), FALSE)
                    >>, None),
      ObjectPattern(<< BindingProperty(IdentifierName("x"), VdDefault("a"), FALSE)
                    >>, None),
      ObjectPattern(<< BindingProperty(IdentifierName("x"),
                           ObjectPattern(<< VdProperty("b", "b") >>, None), FALSE)
                    >>, None),
      ObjectPattern(<< BindingProperty(IdentifierName("x"),
                           AssignmentPattern(
                               ObjectPattern(<< VdProperty("b", "b") >>, None),
                               Call("d")), FALSE) >>, None),
      ObjectPattern(<< VdProperty("a", "a"),
                       BindingProperty(Call("q"), BindingIdentifier("b"), TRUE)
                    >>, BindingIdentifier("c")),
      ObjectPattern(<< VdProperty("b", "b"),
                       BindingProperty(Call("q"), VdDefault("a"), TRUE) >>,
                    BindingIdentifier("c")),
      ObjectPattern(<< BindingProperty(Identifier("k"), BindingIdentifier("b"), TRUE),
                       VdProperty("a", "a") >>, BindingIdentifier("c")),
      ObjectPattern(<< BindingProperty(IdentifierName("x"),
                           ArrayPattern(<< BindingIdentifier("b"), None,
                                           BindingIdentifier("c") >>, None), FALSE)
                    >>, None),
      ObjectPattern(<< BindingProperty(IdentifierName("x"),
                           ObjectPattern(
                               << BindingProperty(Call("q"), BindingIdentifier("b"),
                                                  TRUE) >>,
                               BindingIdentifier("c")), FALSE),
                       BindingProperty(Call("q"), VdDefault("a"), TRUE) >>, None) }

\* Array patterns: holes, defaults, nested patterns and rest.
VarDeclArrayPatterns ==
    { ArrayPattern(<< BindingIdentifier("a"), None, BindingIdentifier("b") >>, None),
      ArrayPattern(<< VdDefault("a") >>, None),
      ArrayPattern(<< AssignmentPattern(
                          ObjectPattern(<< VdProperty("b", "b") >>, None),
                          Call("d")) >>, None),
      ArrayPattern(<< ArrayPattern(<< BindingIdentifier("a") >>, None) >>, None),
      ArrayPattern(<< BindingIdentifier("a"), None >>, BindingIdentifier("b")),
      ArrayPattern(<< BindingIdentifier("a") >>,
                   ObjectPattern(<< VdProperty("length", "b") >>, None)) }

VarDeclPatterns == VarDeclObjectPatterns \cup VarDeclArrayPatterns

VarDeclKinds == {"let", "const", "var"}

\* Declarations of one declarator, and lists of declarators.
VarDeclDeclarations ==
    { VariableDeclarationOf(kind, << VariableDeclarator(p, init) >>) :
        kind \in VarDeclKinds, p \in VarDeclPatterns,
        init \in {Identifier("y"), Call("r")} }
    \cup
    { VariableDeclarationOf(kind,
          << VariableDeclarator(BindingIdentifier("z"), init) >>) :
        kind \in {"let", "var"}, init \in {None, NumberLiteral(1)} }
    \cup
    { VariableDeclarationOf(kind,
          << VariableDeclarator(BindingIdentifier("z"), Call("r")),
             VariableDeclarator(p, Identifier("z")),
             VariableDeclarator(BindingIdentifier("w"), last) >>) :
        kind \in {"let", "var"}, last \in {None, Call("q")},
        p \in { ObjectPattern(<< VdProperty("a", "a") >>, BindingIdentifier("c")),
                ArrayPattern(<< None, VdDefault("b") >>, None) } }

VarDeclInputs ==
    { BlockStatement(<< d, CtCall("m") >>) : d \in VarDeclDeclarations }

\* The properties that hold undefined; every other one holds an object.
VarDeclHeap(undefined) == [p \in undefined |-> Undef]

VarDeclOracle(undefined) ==
    [f \in {"y", "r", "q", "d", "$rest", "slice", "heap"} |->
        CASE f = "heap"  -> VarDeclHeap(undefined)
          [] f = "y"     -> << Obj("y") >>
          [] f = "r"     -> << Obj("y") >>
          [] f = "q"     -> << Str("s"), Str("t") >>
          [] f = "d"     -> << Obj("d") >>
          [] f = "$rest" -> << Obj("rest") >>
          [] f = "slice" -> << Obj("tail") >>]

VarDeclOracles ==
    { VarDeclOracle(undefined) :
        undefined \in { {}, {"y.a", "y.x", "y.0", "y.1"} } }

InitVarDecl ==
    /\ pc = "input"
    /\ state = InitialMapperState
    /\ input \in VarDeclInputs
    /\ oracle \in VarDeclOracles
    /\ lowered = NoLowering
    /\ run = NoRun

\* One application of the pass: to the input, then to its own output for
\* as long as it answers Revisit.
ApplyVarDecl ==
    /\ pc \in {"input", "revisit"}
    /\ LET r == transform_var_decl_statement(
                    IF pc = "input" THEN input ELSE lowered.stmt, state)
       IN  /\ lowered' = [action |-> r.action, stmt |-> r.stmt]
           /\ state' = r.state
           /\ pc' = IF r.action = "Revisit" THEN "revisit" ELSE "lowered"
    /\ UNCHANGED <<input, oracle, run>>

ExecuteVarDecl ==
    /\ pc = "lowered"
    /\ run' = [ref |-> ExecSeq(VarDeclContext(input), StartState(oracle)),
               low |-> ExecSeq(VarDeclContext(lowered.stmt), StartState(oracle)),
               blk |-> None]
    /\ pc' = "done"
    /\ UNCHANGED <<state, input, oracle, lowered>>

NextVarDecl == ApplyVarDecl \/ ExecuteVarDecl

SpecVarDecl == InitVarDecl /\ [][NextVarDecl]_vars

---------------------------------------------------------------------------
(* Properties of the variable-declaration pass.                            *)

\* The declarators of the input's declaration, and those directly in the
\* block the pass gave back.
VarDeclInput == VariableDeclarators(input.body[1])

VarDeclApplied == pc \in {"revisit", "lowered", "done"}

VarDeclOutputDeclarators ==
    { d \in UNION { { VariableDeclarators(lowered.stmt.body[i])[j] :
                        j \in 1..Len(VariableDeclarators(lowered.stmt.body[i])) } :
                    i \in { n \in 1..Len(lowered.stmt.body) :
                              IsVariableDeclaration(lowered.stmt.body[n]) } } :
        TRUE }

\* C14: after the pass was applied to a block, every declarator directly in
\* the block has an initializer (`let x;` has become `let x = undefined;`).
C14_EveryDeclaratorInitialized ==
    VarDeclApplied => \A d \in VarDeclOutputDeclarators : d.init # None

\* The same for the blocks whose declarators all had an initializer.
C14_InitializedStayInitialized ==
    (VarDeclApplied /\ \A i \in 1..Len(VarDeclInput) : VarDeclInput[i].init # None)
    => \A d \in VarDeclOutputDeclarators : d.init # None


RECURSIVE BoundNamesSeq(_)
RECURSIVE BoundNamesAll(_)
\* The names the patterns of a list bind, in source order.
BoundNamesAll(ps) ==
    IF ps = <<>> THEN <<>>
    ELSE (IF Head(ps) = None THEN <<>> ELSE BoundNamesSeq(Head(ps)))
         \o BoundNamesAll(Tail(ps))

\* The names a pattern binds, in source order.
BoundNamesSeq(p) ==
    CASE p.t = "bid"       -> << p.name >>
      [] p.t = "assignpat" -> BoundNamesSeq(p.left)
      [] p.t = "objpat"    ->
            BoundNamesAll([i \in 1..Len(p.properties) |-> p.properties[i].value]
                          \o << p.rest >>)
      [] p.t = "arrpat"    -> BoundNamesAll(p.elements \o << p.rest >>)
      [] OTHER             -> <<>>

\* The names the input declares, in the source order of its declarators.
VarDeclInputNames ==
    BoundNamesAll([i \in 1..Len(VarDeclInput) |-> VarDeclInput[i].id])

IsFreshName(n) == \E i \in 0..state.id_counter : n = "$zeroSugar" \o ToString(i)

\* The names the declarations directly in the output block declare, in
\* order, the names the pass drew left out.
VarDeclOutputNames ==
    LET body  == lowered.stmt.body
        decls == SelectSeq(body, LAMBDA s : IsVariableDeclaration(s))
        names == [i \in 1..Len(decls) |-> VariableDeclarators(decls[i])[1].id.name]
    IN  SelectSeq(names, LAMBDA n : ~IsFreshName(n))

\* C15: when the pass, applied again after every Revisit, has answered
\* Normal, every variable declaration directly in the block has exactly one
\* declarator, whose binding is one identifier; and the declarations of
\* the input's names come in the source order of the input's declarators.
C15_SingleIdentifierDeclarators ==
    (pc \in {"lowered", "done"})
    => /\ \A i \in 1..Len(lowered.stmt.body) :
            IsVariableDeclaration(lowered.stmt.body[i])
            => /\ Len(VariableDeclarators(lowered.stmt.body[i])) = 1
               /\ VariableDeclarators(lowered.stmt.body[i])[1].id.t = "bid"
       /\ VarDeclOutputNames = VarDeclInputNames
       /\ lowered.stmt.body[Len(lowered.stmt.body)] = input.body[Len(input.body)]

\* Three declarators, the second one a pattern with a rest, taken apart
\* after one Revisit.
C15_Witness ==
    /\ pc = "lowered"
    /\ Len(VarDeclInput) = 3
    /\ VarDeclInput[2].id.t = "objpat"
    /\ VarDeclInput[2].id.rest # None
    /\ lowered.action = "Normal"
    /\ state.id_counter = 0
    /\ Len(lowered.stmt.body) = 5


\* The input is the declaration of one object pattern / one array pattern.
VarDeclIsObject == Len(VarDeclInput) = 1 /\ VarDeclInput[1].id.t = "objpat"
VarDeclIsArray  == Len(VarDeclInput) = 1 /\ VarDeclInput[1].id.t = "arrpat"

\* T, the name the pattern is read from: the initializer when it is an
\* identifier, or else the first name drawn.
VarDeclT ==
    IF VarDeclInput[1].init.t = "id" THEN VarDeclInput[1].init.name
    ELSE next_ident_name(InitialMapperState).name

\* The name drawn for the key of the i-th property: the names of the keys
\* follow the one of the initializer, in source order.
VarDeclKeyName(i) ==
    "$zeroSugar" \o ToString(
        (IF VarDeclInput[1].init.t = "id" THEN 0 ELSE 1)
        + AliasedBefore(VarDeclInput[1].id.properties, i))

\* The key of the i-th property as $rest is given it.
VarDeclRestKey(i) ==
    LET prop == VarDeclInput[1].id.properties[i]
    IN  IF ~prop.computed THEN StringLiteral(prop.key.name)
        ELSE IF prop.key.t = "id" THEN Identifier(prop.key.name)
        ELSE Identifier(VarDeclKeyName(i))

\* The lowered block and the input block have the same effects: the same
\* calls and property reads in the same order, the same outcome, and the
\* same values in the names the input declares.
VarDeclSameEffects ==
    /\ run.low.k = run.ref.k
    /\ run.low.v = run.ref.v
    /\ run.low.st.tr = run.ref.st.tr
    /\ run.ref.k = "normal"
       => \A i \in 1..Len(VarDeclInputNames) :
            /\ VarDeclInputNames[i] \in DOMAIN run.low.st.env
            /\ run.low.st.env[VarDeclInputNames[i]]
                 = run.ref.st.env[VarDeclInputNames[i]]

\* C16: in the lowering of an object-pattern declaration the side effects
\* keep their source order and multiplicity: the initializer is evaluated
\* once, first, into a fresh name unless it is an identifier; the
\* properties are read in source order; a computed key that is not an
\* identifier is evaluated once, into a fresh const right before the read
\* that uses it; the rest comes last, as $rest(T, [keys]) with every key of
\* that level in source order, a string for a static key and the key's
\* identifier or fresh name for a computed one.
C16_ObjectPatternEffects ==
    (pc = "done" /\ VarDeclIsObject)
    => LET body  == lowered.stmt.body
           decl  == input.body[1]
           p     == VarDeclInput[1].id
           props == p.properties
       IN  /\ VarDeclInput[1].init.t # "id"
              => body[1] = VariableDeclaration("let", VarDeclT, VarDeclInput[1].init)
           /\ \A i \in 1..Len(props) :
                (props[i].computed /\ props[i].key.t # "id")
                => \E j \in 1..(Len(body) - 1) :
                      /\ body[j] = VariableDeclaration(
                                       "const", VarDeclKeyName(i), props[i].key)
                      /\ body[j + 1].t = "decl"
                      /\ body[j + 1].init
                           = ComputedMemberExpression(
                                 Identifier(VarDeclT), Identifier(VarDeclKeyName(i)))
           /\ p.rest # None
              => body[Len(body) - 1]
                   = VariableDeclaration(
                         decl.kind, p.rest.name,
                         CallExpression(
                             Identifier("$rest"),
                             << Identifier(VarDeclT),
                                ArrayExpression(
                                    [i \in 1..Len(props) |-> VarDeclRestKey(i)]) >>))
           /\ VarDeclSameEffects


\* C17: for an array pattern with a rest element, an identifier as rest is
\* declared as `<kind> rest = T.slice(i)`, i the number of elements before
\* it, holes included; an object pattern as rest is lowered against the
\* sliced tail: slice is called once and the properties are read from what
\* it returns, not from T.
C17_ArrayRestFromSlice ==
    (pc = "done" /\ VarDeclIsArray /\ VarDeclInput[1].id.rest # None)
    => LET body == lowered.stmt.body
           p    == VarDeclInput[1].id
           tail == CallExpression(
                       StaticMemberExpression(Identifier(VarDeclT), "slice"),
                       << NumberLiteral(Len(p.elements)) >>)
       IN  /\ p.rest.t = "bid"
              => body[Len(body) - 1]
                   = VariableDeclaration(input.body[1].kind, p.rest.name, tail)
           /\ p.rest.t = "objpat"
              => \E j \in 1..Len(body) :
                    body[j].t = "decl" /\ body[j].init = tail
           /\ VarDeclSameEffects

---------------------------------------------------------------------------
(* Mapper::map_statement step by step (mapper.rs 84-329; map_expression,   *)
(* 353 on, has the same loop over visitors_expr).                          *)
(*                                                                         *)
(* The node is known by the number of times a visitor has replaced it: a   *)
(* visitor that answers Revisit returns the next node, any other answer    *)
(* returns the node as it is.  A visitor is the table of its answers, per  *)
(* phase and node.  `input` holds the visitors, `lowered` the node with    *)
(* the last answer, `run` the locals of the loop and the log of what was   *)
(* called: a visitor with its phase and node, or the descent into the      *)
(* children of a node.                                                     *)

\* The number of times a node is replaced at most: on the last node no
\* visitor answers Revisit.
MaxVersion == 1

MaxVisitors == 2

MapperActions == {"Normal", "Revisit", "Skip"}

\* The answers of one visitor: for each phase, one per node.
VisitorAnswers ==
    { phase \in [1..(MaxVersion + 1) -> MapperActions] :
        phase[MaxVersion + 1] # "Revisit" }

MapperVisitors == [before : VisitorAnswers, after : VisitorAnswers]

VisitorCalled(before, i, node, action) ==
    [e |-> "visitor", before |-> before, i |-> i, node |-> node, action |-> action]

ChildrenMapped(node) ==
    [e |-> "children", before |-> FALSE, i |-> 0, node |-> node, action |-> "none"]

MapperLocals(visit_again, enter, i, log) ==
    [visit_again |-> visit_again, enter_node |-> enter, i |-> i, log |-> log]

InitMapper ==
    /\ pc = "while"
    /\ state = InitialMapperState
    /\ input \in [1..MaxVisitors -> MapperVisitors]
    /\ oracle = <<>>
    /\ lowered = [action |-> "none", stmt |-> 0]
    /\ run = MapperLocals(TRUE, TRUE, 1, <<>>)

\* while visit_again { enter_node = true; visit_again = false; ...
EnterStatement ==
    /\ pc = "while"
    /\ run.visit_again
    /\ run' = MapperLocals(FALSE, TRUE, 1, run.log)
    /\ pc' = "before"
    /\ UNCHANGED <<state, input, oracle, lowered>>

\* for visitor in &self.visitors_stmt { visitor(stmt, allocator, true) ...
\* Revisit sets visit_again and leaves the loop over the visitors;
\* otherwise enter_node |= action == Normal.
BeforeVisitor ==
    /\ pc = "before"
    /\ LET action == input[run.i].before[lowered.stmt + 1]
       IN  /\ lowered' = [action |-> action,
                          stmt |-> IF action = "Revisit" THEN lowered.stmt + 1
                                   ELSE lowered.stmt]
           /\ run' = MapperLocals(
                         run.visit_again \/ action = "Revisit",
                         IF action = "Revisit" THEN run.enter_node
                         ELSE run.enter_node \/ action = "Normal",
                         IF action = "Revisit" THEN 1 ELSE run.i + 1,
                         Append(run.log,
                                VisitorCalled(TRUE, run.i, lowered.stmt, action)))
           /\ pc' = IF action = "Revisit" \/ run.i = Len(input)
                    THEN "children" ELSE "before"
    /\ UNCHANGED <<state, input, oracle>>

\* if enter_node { stmt = match stmt { ... map the children ... } }
MapChildren ==
    /\ pc = "children"
    /\ run' = MapperLocals(
                  run.visit_again, run.enter_node, 1,
                  IF run.enter_node
                  THEN Append(run.log, ChildrenMapped(lowered.stmt))
                  ELSE run.log)
    /\ pc' = "after"
    /\ UNCHANGED <<state, input, oracle, lowered>>

\* for visitor in &self.visitors_stmt { visitor(stmt, allocator, false) ...
\* Revisit sets visit_again and leaves the loop over the visitors.
AfterVisitor ==
    /\ pc = "after"
    /\ LET action == input[run.i].after[lowered.stmt + 1]
       IN  /\ lowered' = [action |-> action,
                          stmt |-> IF action = "Revisit" THEN lowered.stmt + 1
                                   ELSE lowered.stmt]
           /\ run' = MapperLocals(
                         run.visit_again \/ action = "Revisit",
                         run.enter_node,
                         IF action = "Revisit" THEN 1 ELSE run.i + 1,
                         Append(run.log,
                                VisitorCalled(FALSE, run.i, lowered.stmt, action)))
           /\ pc' = IF action = "Revisit" \/ run.i = Len(input)
                    THEN "while" ELSE "after"
    /\ UNCHANGED <<state, input, oracle>>

\* ... } stmt
LeaveStatement ==
    /\ pc = "while"
    /\ ~run.visit_again
    /\ pc' = "done"
    /\ UNCHANGED <<state, input, oracle, lowered, run>>

NextMapper ==
    \/ EnterStatement
    \/ BeforeVisitor
    \/ MapChildren
    \/ AfterVisitor
    \/ LeaveStatement

SpecMapper == InitMapper /\ [][NextMapper]_vars

---------------------------------------------------------------------------
(* Properties of the mapper.                                               *)

IsVisitorCall(ev, before) == ev.e = "visitor" /\ ev.before = before

\* C18: when a visitor of the Before phase answers Revisit, what is called
\* next is the first visitor of the Before phase on the returned node: no
\* later Before visitor, no descent into the children and no After visitor
\* comes between.
C18_BeforeRevisitRestarts ==
    pc \in {"while", "before", "children", "after", "done"}
    => \A n \in 1..(Len(run.log) - 1) :
          (IsVisitorCall(run.log[n], TRUE) /\ run.log[n].action = "Revisit")
          => /\ IsVisitorCall(run.log[n + 1], TRUE)
             /\ run.log[n + 1].i = 1
             /\ run.log[n + 1].node = run.log[n].node + 1

\* C19: when a visitor of the Before phase answers Skip and none answers
\* Revisit, the Before visitors after it are still called, and what is
\* called next is the first visitor of the After phase on the same node:
\* the children are not descended into.
C19_BeforeSkipSkipsChildren ==
    pc \in {"while", "before", "children", "after", "done"}
    => \A n \in 1..Len(run.log) :
          (IsVisitorCall(run.log[n], TRUE) /\ run.log[n].action = "Skip")
          => LET last == n + (Len(input) - run.log[n].i)
             IN  /\ \A j \in (n + 1)..last :
                       (j <= Len(run.log)
                        /\ \A m \in n..(j - 1) : run.log[m].action # "Revisit")
                       => /\ IsVisitorCall(run.log[j], TRUE)
                          /\ run.log[j].i = run.log[n].i + (j - n)
                          /\ run.log[j].node = run.log[n].node
                 /\ (last < Len(run.log)
                     /\ \A m \in n..last : run.log[m].action # "Revisit")
                    => /\ IsVisitorCall(run.log[last + 1], FALSE)
                       /\ run.log[last + 1].i = 1
                       /\ run.log[last + 1].node = run.log[n].node

---------------------------------------------------------------------------
(* Mapper::map with the lowering passes registered (mapper.rs 71-329).     *)
(*                                                                         *)
(* map_statement is recursive; here every call is a frame on a stack, so   *)
(* that a traversal that never ends shows as a behaviour that never        *)
(* reaches "done".  A frame holds the locals of one call: the statement,   *)
(* visit_again, the children being mapped and how many are done.           *)

\* The most restarts of the visit cycle that one call of map_statement is
\* followed through.
MaxRevisits == 4

\* The visitors in the order of their registration.
MapVisitorNames ==
    << "continue", "do_while", "for_n", "for_in", "for_of", "switch",
       "finally", "var_decl" >>

MapNormal(stmt, st) == [action |-> "Normal", stmt |-> stmt, state |-> st]

\* The action of the for-in and for-of passes, which return a boolean:
\* true asks for the statement to be visited again.
MapActionOfBool(r) ==
    [action |-> IF r.revisit THEN "Revisit" ELSE "Normal",
     stmt   |-> r.stmt,
     state  |-> r.state]

MapContinueUpdates(r) == MapNormal(r.stmt, r.state)

\* One registered visitor called on stmt.  The continue pass keeps its
\* stack of targets in both phases and rewrites a continue on the way
\* down; the lowerings act on the way up; the variable-declaration pass
\* acts on a block, in the phase var_decl_before says.
MapVisitor(name, stmt, before, st, var_decl_before) ==
    CASE name = "continue" /\ before /\ stmt.t = "continue" ->
            transform_continue_statement(stmt, st)
      [] name = "continue" /\ ~(before /\ stmt.t = "continue") ->
            MapContinueUpdates(apply_continue_transform_updates(stmt, before, st))
      [] name = "do_while" /\ ~before /\ stmt.t = "dowhile" ->
            transform_do_while_statement(stmt, st)
      [] name = "for_n" /\ ~before /\ stmt.t = "for" ->
            transform_for_n_statement(stmt, st)
      [] name = "for_in" /\ ~before /\ stmt.t = "forin" ->
            MapActionOfBool(transform_for_in_statement(stmt, st))
      [] name = "for_of" /\ ~before /\ stmt.t = "forof" ->
            MapActionOfBool(transform_for_of_statement(stmt, st))
      [] name = "switch" /\ ~before /\ stmt.t = "switch" ->
            transform_switch_statement(stmt, st)
      [] name = "finally" /\ ~before /\ stmt.t = "try" ->
            transform_finally_statement(stmt, st)
      [] name = "var_decl" /\ before = var_decl_before /\ stmt.t = "block" ->
            transform_var_decl_statement(stmt, st)
      [] OTHER -> MapNormal(stmt, st)

\* The sequences of a sequence, one after the other.
RECURSIVE WalkConcat(_)
WalkConcat(seqs) ==
    IF seqs = << >> THEN << >> ELSE Head(seqs) \o WalkConcat(Tail(seqs))

RECURSIVE MapConsequents(_)
\* The statements of all the cases of a switch, in order.
MapConsequents(cases) ==
    IF cases = <<>> THEN <<>>
    ELSE Head(cases).consequent \o MapConsequents(Tail(cases))

MapBodyOf(b) == IF b = None THEN <<>> ELSE b.body

\* The statements inside functions that map_statement reaches: a function
\* declaration has its body mapped (mapper.rs 296-300); a class has the
\* body of every method mapped by map_function, and the result mapped by
\* map_function again (1186-1190), its static blocks are pushed as they
\* are (1202-1204); an expression statement `f = e` reaches the body of a
\* function expression, the body of a block-bodied arrow and, through
\* map_binding_pattern, the function expressions that are defaults of the
\* arrow's parameters (403-461).  The parameters of a function are not
\* mapped (1065-1108).
MapIsMethod(element) == element.t = "method"

MapIsFunctionDefault(p) ==
    IF p.t = "assignpat" THEN p.right.t = "funcx" ELSE FALSE

\* The body of every method, and after it the place of its second mapping.
MapClassBodies(class) ==
    WalkConcat([j \in 1..Len(SelectSeq(class.body, MapIsMethod)) |->
        << SelectSeq(class.body, MapIsMethod)[j].value.body,
           SelectSeq(class.body, MapIsMethod)[j].value.body >>])

MapArrowBodies(arrow) ==
    [j \in 1..Len(SelectSeq(arrow.params, MapIsFunctionDefault)) |->
        SelectSeq(arrow.params, MapIsFunctionDefault)[j].right.function.body]
    \o (IF arrow.expression THEN << >> ELSE << arrow.body >>)

MapExpressionBodies(e) ==
    CASE e.t = "funcx"  -> << e.function.body >>
      [] e.t = "arrow"  -> MapArrowBodies(e)
      [] e.t = "classx" -> MapClassBodies(e.class)
      [] OTHER          -> << >>

\* The lists of statements mapped inside s, in the order of their mapping.
MapBodiesOf(s) ==
    CASE s.t = "funcdecl"  -> << s.function.body >>
      [] s.t = "classdecl" -> MapClassBodies(s.class)
      [] s.t = "expr"      -> IF s.e.t = "assign" THEN MapExpressionBodies(s.e.rhs)
                              ELSE << >>
      [] OTHER             -> << >>

MapHoldsClass(s) ==
    \/ s.t = "classdecl"
    \/ s.t = "expr" /\ (IF s.e.t = "assign" THEN s.e.rhs.t = "classx" ELSE FALSE)

\* The children that stand for the m-th list of bodies.
MapSegment(bodies, kids, m) ==
    SubSeq(kids, Len(WalkConcat(SubSeq(bodies, 1, m - 1))) + 1,
                 Len(WalkConcat(SubSeq(bodies, 1, m))))

\* The place of child i, or for a statement of a method's body the place
\* of its second mapping, which maps what the first returns.
MapSecondPlace(s, i) ==
    IF MapHoldsClass(s)
       /\ \E m \in 1..Len(MapBodiesOf(s)) :
            /\ m % 2 = 1
            /\ i > Len(WalkConcat(SubSeq(MapBodiesOf(s), 1, m - 1)))
            /\ i <= Len(WalkConcat(SubSeq(MapBodiesOf(s), 1, m)))
    THEN i + Len(MapBodiesOf(s)[
             CHOOSE m \in 1..Len(MapBodiesOf(s)) :
                /\ m % 2 = 1
                /\ i > Len(WalkConcat(SubSeq(MapBodiesOf(s), 1, m - 1)))
                /\ i <= Len(WalkConcat(SubSeq(MapBodiesOf(s), 1, m)))])
    ELSE i

\* The class with the bodies of its methods as mapped the second time.
MapClassRebuilt(class, bodies, kids) ==
    [class EXCEPT !.body =
        [i \in 1..Len(class.body) |->
            IF class.body[i].t = "method"
            THEN [class.body[i] EXCEPT !.value.body =
                     MapSegment(bodies, kids,
                         2 * Len(SelectSeq(SubSeq(class.body, 1, i), MapIsMethod)))]
            ELSE class.body[i]]]

MapArrowRebuilt(arrow, bodies, kids) ==
    [arrow EXCEPT
        !.params =
            [i \in 1..Len(arrow.params) |->
                IF MapIsFunctionDefault(arrow.params[i])
                THEN [arrow.params[i] EXCEPT !.right.function.body =
                         MapSegment(bodies, kids,
                             Len(SelectSeq(SubSeq(arrow.params, 1, i),
                                           MapIsFunctionDefault)))]
                ELSE arrow.params[i]],
        !.body = IF arrow.expression THEN arrow.body
                 ELSE MapSegment(bodies, kids, Len(bodies))]

MapExpressionRebuilt(e, kids) ==
    CASE e.t = "funcx"  -> [e EXCEPT !.function.body = kids]
      [] e.t = "arrow"  -> MapArrowRebuilt(e, MapArrowBodies(e), kids)
      [] e.t = "classx" ->
            [e EXCEPT !.class = MapClassRebuilt(e.class, MapClassBodies(e.class), kids)]
      [] OTHER          -> e

\* The statements that map_statement maps as the children of s, in the
\* order in which it maps them.
MapChildrenOf(s) ==
    CASE s.t \in {"block", "func"} -> s.body
      [] s.t = "if" -> IF s.alt = None THEN << s.cons >> ELSE << s.cons, s.alt >>
      [] s.t \in {"labeled", "while", "dowhile", "for", "forin", "forof", "with"} ->
            << s.stmt >>
      [] s.t = "try" -> s.block \o MapBodyOf(s.handler) \o MapBodyOf(s.finalizer)
      [] s.t = "switch" -> MapConsequents(s.cases)
      [] s.t \in {"funcdecl", "classdecl", "expr"} -> WalkConcat(MapBodiesOf(s))
      [] OTHER -> <<>>

RECURSIVE MapCasesOf(_, _)
\* The cases with their consequents taken from kids, in order.
MapCasesOf(cases, kids) ==
    IF cases = <<>> THEN <<>>
    ELSE << SwitchCase(Head(cases).test,
                       SubSeq(kids, 1, Len(Head(cases).consequent))) >>
         \o MapCasesOf(Tail(cases),
                       SubSeq(kids, Len(Head(cases).consequent) + 1, Len(kids)))

\* s rebuilt around its mapped children.
MapRebuilt(s, kids) ==
    CASE s.t \in {"block", "func"} -> [s EXCEPT !.body = kids]
      [] s.t = "if" ->
            [s EXCEPT !.cons = kids[1],
                      !.alt = IF s.alt = None THEN None ELSE kids[2]]
      [] s.t \in {"labeled", "while", "dowhile", "for", "forin", "forof", "with"} ->
            [s EXCEPT !.stmt = kids[1]]
      [] s.t = "try" ->
            TryStatement(
                SubSeq(kids, 1, Len(s.block)),
                IF s.handler = None THEN None
                ELSE CatchClause(s.handler.param,
                         SubSeq(kids, Len(s.block) + 1,
                                Len(s.block) + Len(s.handler.body))),
                IF s.finalizer = None THEN None
                ELSE BlockStatement(
                         SubSeq(kids, Len(s.block) + Len(MapBodyOf(s.handler)) + 1,
                                Len(kids))))
      [] s.t = "switch" ->
            SwitchStatement(s.discriminant, MapCasesOf(s.cases, kids))
      [] s.t = "funcdecl" -> [s EXCEPT !.function.body = kids]
      [] s.t = "classdecl" ->
            [s EXCEPT !.class = MapClassRebuilt(s.class, MapClassBodies(s.class), kids)]
      [] s.t = "expr" ->
            IF s.e.t = "assign"
            THEN [s EXCEPT !.e.rhs = MapExpressionRebuilt(s.e.rhs, kids)]
            ELSE s
      [] OTHER -> s

\* The locals of one call of map_statement.  phase is the position in the
\* body of its loop, v the visitor that is called next, i the child that
\* is mapped next; revisits counts the restarts of the loop.
MapFrame(stmt, phase, v, visit_again, kids, i, revisits) ==
    [stmt |-> stmt, phase |-> phase, v |-> v, visit_again |-> visit_again,
     kids |-> kids, i |-> i, revisits |-> revisits]

MapCall(stmt) == MapFrame(stmt, "before", 1, FALSE, <<>>, 1, 0)

\* The programs that are mapped: the eight constructs the passes lower,
\* alone, one inside another, and after one another.
MapCallStmt(f) == ExpressionStatement(Call(f))

MapPatternDeclaration ==
    VariableDeclarationOf("const",
        << VariableDeclarator(
               ObjectPattern(
                   << BindingProperty(IdentifierName("a"), BindingIdentifier("a"), FALSE),
                      BindingProperty(IdentifierName("b"),
                          ArrayPattern(<< BindingIdentifier("c") >>, None), FALSE) >>,
                   None),
               Identifier("y")) >>)

MapDeclarations ==
    { MapPatternDeclaration,
      VariableDeclarationOf("let",
          << VariableDeclarator(BindingIdentifier("z"), None) >>),
      VariableDeclarationOf("let",
          << VariableDeclarator(BindingIdentifier("p"), NumberLiteral(1)),
             VariableDeclarator(BindingIdentifier("q"), None) >>) }

\* Bodies of a loop, with and without a continue of the loop.
MapLoopBodies ==
    { MapCallStmt("a"),
      ContinueStatement(NoLabel),
      BlockStatement(<< IfStatement(Call("c"), ContinueStatement(NoLabel), None),
                        MapCallStmt("a") >>) }

MapForHeader ==
    VariableDeclarationOf("let", << VariableDeclarator(BindingIdentifier("x"), None) >>)

MapLoops(B) ==
    { WhileStatement(Call("c"), b) : b \in B }
    \cup { DoWhileStatement(b, Call("c")) : b \in B }
    \cup { ForStatement(VariableDeclaration("let", "i", NumberLiteral(0)),
                        Call("c"), Call("u"), b) : b \in B }
    \cup { ForStatement(None, None, None, b) : b \in B }
    \cup { ForInStatement(MapForHeader, Call("r"), b) : b \in B }
    \cup { ForOfStatement(AssignmentTargetIdentifier("x"), Call("r"), b) : b \in B }

\* A statement around s in which s is mapped as a child.
MapWrappers(S) ==
    { BlockStatement(<< s >>) : s \in S }
    \cup { IfStatement(Call("c"), s, None) : s \in S }
    \cup { LabeledStatement("L", s) : s \in S }
    \cup { TryStatement(<< s >>, None, BlockStatement(<< MapCallStmt("g") >>)) :
             s \in S }
    \cup { TryStatement(<< MapCallStmt("a") >>, CatchClause("e", << s >>),
                        BlockStatement(<< MapCallStmt("g") >>)) : s \in S }
    \cup { SwitchStatement(Call("d"),
               << SwitchCase(NumberLiteral(1), << s, BreakStatement(NoLabel) >>),
                  SwitchCase(None, << MapCallStmt("b") >>) >>) : s \in S }

MapLevel0 ==
    { MapCallStmt("a"),
      ReturnStatement(Call("f")),
      SwitchStatement(Call("d"), <<>>),
      ForStatement(MapPatternDeclaration, Call("c"), None, MapCallStmt("a")),
      LabeledStatement("outer",
          WhileStatement(Call("c"),
              DoWhileStatement(
                  IfStatement(Call("c"), ContinueStatement("outer"),
                              ContinueStatement(NoLabel)),
                  Call("c")))) }
    \cup { BlockStatement(<< d, MapCallStmt("m") >>) : d \in MapDeclarations }

MapLevel1 == MapWrappers(MapLevel0) \cup MapLoops(MapLoopBodies \cup MapLevel0)

MapLevel2 ==
    MapWrappers(MapLoops(MapLoopBodies))
    \cup MapLoops(MapLoops({ BlockStatement(<< ContinueStatement(NoLabel) >>) }))

\* Statements that are lowered, as they stand inside functions and classes.
MapSugar ==
    { DoWhileStatement(MapCallStmt("a"), Call("c")),
      ForStatement(None, Call("c"), Call("u"), MapCallStmt("a")),
      TryStatement(<< MapCallStmt("a") >>, None, BlockStatement(<< MapCallStmt("g") >>)) }

MapFunctionsWith(s) ==
    { Function(<< >>, << s >>),
      Function(<< AssignmentPattern(BindingIdentifier("p"),
                      FunctionExpression(Function(<< >>, << s >>))) >>,
               << MapCallStmt("b") >>) }

MapClassesWith(s) ==
    { Class(None, << MethodDefinition(Function(<< >>, << s >>)) >>),
      Class(None, << StaticBlock(<< s >>),
                     MethodDefinition(Function(<< >>, << MapCallStmt("b") >>)),
                     MethodDefinition(Function(<< >>, << s, MapCallStmt("m") >>)) >>) }

MapArrowsWith(s) ==
    { ArrowExpression(<< BindingIdentifier("x") >>, << s >>, FALSE),
      ArrowExpression(<< BindingIdentifier("x"),
                         AssignmentPattern(BindingIdentifier("p"),
                             FunctionExpression(Function(<< >>, << s >>))) >>,
                      << MapCallStmt("b") >>, TRUE) }

\* Function declarations, classes, and assignments of function
\* expressions, arrows and class expressions, around a statement of
\* MapSugar.
MapContainers ==
    UNION { { FunctionDeclarationOf(f) : f \in MapFunctionsWith(s) }
            \cup { ClassDeclaration(c) : c \in MapClassesWith(s) }
            \cup { ExpressionStatement(Assignment("f", FunctionExpression(f))) :
                      f \in MapFunctionsWith(s) }
            \cup { ExpressionStatement(Assignment("f", a)) : a \in MapArrowsWith(s) }
            \cup { ExpressionStatement(Assignment("f", ClassExpression(c))) :
                      c \in MapClassesWith(s) } :
            s \in MapSugar }

MapPrograms ==
    { << s >> : s \in MapLevel0 \cup MapLevel1 \cup MapLevel2 \cup MapContainers }

\* The stack of the calls of map_statement that have not returned, the
\* innermost last, and the most restarts any call has made.
MapRun(stack, restarts) == [stack |-> stack, restarts |-> restarts]

MapTop == run.stack[Len(run.stack)]

MapWithTop(f) == [run EXCEPT !.stack[Len(run.stack)] = f]

\* Mapper::map: the body of the program is mapped as one block.
InitMap ==
    /\ pc = "map"
    /\ state = InitialMapperState
    /\ input \in [body : MapPrograms, var_decl_before : BOOLEAN]
    /\ oracle = <<>>
    /\ lowered = NoLowering
    /\ run = MapRun(<< MapCall(BlockStatement(input.body)) >>, 0)

\* The frame after visitor f.v was called with before = true and returned
\* r: a Revisit ends the loop over the visitors.  enter_node is true at the
\* head of the cycle and an answer is only or-ed into it, so the children
\* are mapped whatever the visitors answer.
MapBeforeFrame(f, r) ==
    IF r.action = "Revisit" \/ f.v = Len(MapVisitorNames)
    THEN MapFrame(r.stmt, "children", 1, r.action = "Revisit",
                  MapChildrenOf(r.stmt), 1, f.revisits)
    ELSE MapFrame(r.stmt, "before", f.v + 1, FALSE, <<>>, 1, f.revisits)

MapBeforeStep(f, r) == [run |-> MapWithTop(MapBeforeFrame(f, r)), state |-> r.state]

MapBefore ==
    /\ pc = "map"
    /\ MapTop.phase = "before"
    /\ LET n == MapBeforeStep(
                    MapTop,
                    MapVisitor(MapVisitorNames[MapTop.v], MapTop.stmt, TRUE, state,
                               input.var_decl_before))
       IN  /\ run' = n.run
           /\ state' = n.state
    /\ UNCHANGED <<pc, input, oracle, lowered>>

\* map_statement is called on the next child.
MapDescend ==
    /\ pc = "map"
    /\ MapTop.phase = "children"
    /\ MapTop.i <= Len(MapTop.kids)
    /\ run' = [run EXCEPT !.stack = Append(@, MapCall(MapTop.kids[MapTop.i]))]
    /\ UNCHANGED <<pc, state, input, oracle, lowered>>

\* The call on a child returns the statement that takes the child's place.
MapAscend ==
    /\ pc = "map"
    /\ Len(run.stack) > 1
    /\ MapTop.phase = "done"
    /\ run' = [run EXCEPT
                 !.stack = [ SubSeq(@, 1, Len(@) - 1) EXCEPT
                               ![Len(run.stack) - 1] =
                                   [@ EXCEPT !.kids[@.i] = MapTop.stmt,
                                             !.kids[MapSecondPlace(@.stmt, @.i)] =
                                                 MapTop.stmt,
                                             !.i = @ + 1] ]]
    /\ UNCHANGED <<pc, state, input, oracle, lowered>>

\* The children are mapped: the statement is built from them.
MapChildrenDone ==
    /\ pc = "map"
    /\ MapTop.phase = "children"
    /\ MapTop.i > Len(MapTop.kids)
    /\ run' = MapWithTop(MapFrame(MapRebuilt(MapTop.stmt, MapTop.kids), "after", 1,
                                  MapTop.visit_again, <<>>, 1, MapTop.revisits))
    /\ UNCHANGED <<pc, state, input, oracle, lowered>>

\* The frame after visitor f.v was called with before = false and returned
\* r.
MapAfterFrame(f, r) ==
    IF r.action = "Revisit" \/ f.v = Len(MapVisitorNames)
    THEN MapFrame(r.stmt, "leave", 1, f.visit_again \/ r.action = "Revisit",
                  <<>>, 1, f.revisits)
    ELSE MapFrame(r.stmt, "after", f.v + 1, f.visit_again, <<>>, 1, f.revisits)

MapAfterStep(f, r) == [run |-> MapWithTop(MapAfterFrame(f, r)), state |-> r.state]

MapAfter ==
    /\ pc = "map"
    /\ MapTop.phase = "after"
    /\ LET n == MapAfterStep(
                    MapTop,
                    MapVisitor(MapVisitorNames[MapTop.v], MapTop.stmt, FALSE, state,
                               input.var_decl_before))
       IN  /\ run' = n.run
           /\ state' = n.state
    /\ UNCHANGED <<pc, input, oracle, lowered>>

Max(a, b) == IF a > b THEN a ELSE b

\* `while visit_again`: the cycle starts again on the statement returned.
MapRevisit ==
    /\ pc = "map"
    /\ MapTop.phase = "leave"
    /\ MapTop.visit_again
    /\ MapTop.revisits < MaxRevisits
    /\ run' = [ MapWithTop(MapFrame(MapTop.stmt, "before", 1, FALSE, <<>>, 1,
                                    MapTop.revisits + 1))
                EXCEPT !.restarts = Max(@, MapTop.revisits + 1) ]
    /\ UNCHANGED <<pc, state, input, oracle, lowered>>

\* The loop ends and map_statement returns.
MapLeave ==
    /\ pc = "map"
    /\ MapTop.phase = "leave"
    /\ ~MapTop.visit_again
    /\ run' = MapWithTop([MapTop EXCEPT !.phase = "done"])
    /\ UNCHANGED <<pc, state, input, oracle, lowered>>

\* Mapper::map returns the program with the body of the mapped block.
MapProgram ==
    /\ pc = "map"
    /\ Len(run.stack) = 1
    /\ MapTop.phase = "done"
    /\ pc' = "done"
    /\ lowered' = [action |-> "Normal", stmt |-> MapTop.stmt]
    /\ UNCHANGED <<state, input, oracle, run>>

NextMap ==
    \/ MapBefore
    \/ MapDescend
    \/ MapAscend
    \/ MapChildrenDone
    \/ MapAfter
    \/ MapRevisit
    \/ MapLeave
    \/ MapProgram

SpecMap == InitMap /\ [][NextMap]_vars

---------------------------------------------------------------------------
(* Termination of the traversal.                                           *)

\* Whether the mapper can take a step: the guards of the actions of
\* NextMap.  With a statement that asks for Revisit again and again the
\* cycle is followed for MaxRevisits restarts and no further.
MapCanStep ==
    /\ pc = "map"
    /\ \/ MapTop.phase \in {"before", "children", "after", "done"}
       \/ MapTop.phase = "leave" /\ ~MapTop.visit_again
       \/ MapTop.phase = "leave" /\ MapTop.visit_again
          /\ MapTop.revisits < MaxRevisits

\* C20: with the lowering passes registered, Mapper::map returns on every
\* program: as long as map has not returned the mapper can take a step,
\* and no call of map_statement has its visit cycle restarted MaxRevisits
\* times.  The steps of a call go from phase to phase, from visitor to
\* visitor and from child to child, so a traversal that never ended would
\* restart a cycle without end or nest calls without end.
C20_MapTerminates ==
    /\ pc = "done" \/ MapCanStep
    /\ \A k \in 1..Len(run.stack) : run.stack[k].revisits < MaxRevisits

\* map has returned and some statement had its visit cycle restarted
\* twice: `for (const {a, b: [c]} = y; c(); ) a();` is lowered to a block
\* by the for pass, and the block is changed by the declaration pass.
C20_Witness == pc = "done" /\ run.restarts >= 2


---------------------------------------------------------------------------
(* The traversal of Mapper::map_statement and Mapper::map_expression       *)
(* (mapper.rs): which nodes the visitors are called on, and in which       *)
(* order.  Functions, arrows and classes are added to the syntax.  The     *)
(* visitors of this specification answer Normal and return the node: the   *)
(* traversal is what is observed.  A call Call(f) stands for the call      *)
(* with its callee identifier: it is one expression node.                  *)

\* A node together with the mapper function it is handed to: "stmt" for
\* map_statement, "expr" for map_expression, "vardecl" for
\* map_variable_declaration, "pattern" for map_binding_pattern, "target"
\* for map_assignment_target, "function" for map_function, "class" for
\* map_class.
WalkItem(kind, node) == [kind |-> kind, node |-> node]
WalkItems(kind, nodes) == [i \in 1..Len(nodes) |-> WalkItem(kind, nodes[i])]
WalkOptional(kind, node) == IF node = None THEN << >> ELSE << WalkItem(kind, node) >>


\* mapper.rs 331-351: the test of each case, then its consequent.
map_switch_statement_cases(cases) ==
    WalkConcat([i \in 1..Len(cases) |->
        WalkOptional("expr", cases[i].test) \o WalkItems("stmt", cases[i].consequent)])

\* The left-hand side of a for-in / for-of header.
map_for_left(left) ==
    IF left.t \in {"decl", "vardecl"} THEN << WalkItem("vardecl", left) >>
    ELSE << WalkItem("target", left) >>

\* The calls of the arms of Mapper::map_statement, in the order the code
\* makes them.  The handler of a try statement has its body mapped before
\* its parameter.
map_statement_calls(s) ==
    CASE s.t = "block"    -> WalkItems("stmt", s.body)
      [] s.t = "dowhile"  -> << WalkItem("stmt", s.stmt), WalkItem("expr", s.test) >>
      [] s.t = "expr"     -> << WalkItem("expr", s.e) >>
      [] s.t = "forin"    -> map_for_left(s.left) \o
                             << WalkItem("expr", s.right), WalkItem("stmt", s.stmt) >>
      [] s.t = "forof"    -> map_for_left(s.left) \o
                             << WalkItem("expr", s.right), WalkItem("stmt", s.stmt) >>
      [] s.t = "for"      -> (IF s.init = None THEN << >>
                              ELSE IF s.init.t \in {"decl", "vardecl"}
                                   THEN << WalkItem("vardecl", s.init) >>
                                   ELSE << WalkItem("expr", s.init) >>) \o
                             WalkOptional("expr", s.test) \o
                             WalkOptional("expr", s.update) \o
                             << WalkItem("stmt", s.stmt) >>
      [] s.t = "if"       -> << WalkItem("expr", s.test), WalkItem("stmt", s.cons) >> \o
                             WalkOptional("stmt", s.alt)
      [] s.t = "labeled"  -> << WalkItem("stmt", s.stmt) >>
      [] s.t = "return"   -> WalkOptional("expr", s.arg)
      [] s.t = "switch"   -> << WalkItem("expr", s.discriminant) >> \o
                             map_switch_statement_cases(s.cases)
      [] s.t = "throw"    -> << WalkItem("expr", s.arg) >>
      [] s.t = "try"      -> WalkItems("stmt", s.block) \o
                             (IF s.handler = None THEN << >>
                              ELSE WalkItems("stmt", s.handler.body) \o
                                   WalkOptional("pattern", s.handler.param)) \o
                             (IF s.finalizer = None THEN << >>
                              ELSE WalkItems("stmt", s.finalizer.body))
      [] s.t = "while"    -> << WalkItem("expr", s.test), WalkItem("stmt", s.stmt) >>
      [] s.t = "with"     -> << WalkItem("expr", s.object), WalkItem("stmt", s.stmt) >>
      [] s.t \in {"decl", "vardecl"} -> << WalkItem("vardecl", s) >>
      [] s.t = "funcdecl" -> WalkItems("stmt", s.function.body)
      [] s.t = "classdecl" -> << WalkItem("class", s.class) >>
      [] OTHER            -> << >>

\* The calls of the arms of Mapper::map_expression.  The expression of an
\* expression-bodied arrow is taken out of its statement and wrapped again.
map_expression_calls(e) ==
    CASE e.t = "arrow"  -> WalkItems("pattern", e.params) \o
                           (IF e.expression THEN << >>
                            ELSE WalkItems("stmt", e.body))
      [] e.t = "array"  -> WalkItems("expr", e.elements)
      [] e.t = "assign" -> << WalkItem("expr", e.rhs) >>
      [] e.t = "assign_member" ->
            << WalkItem("target", MemberAssignmentTarget(e.target)),
               WalkItem("expr", e.rhs) >>
      [] e.t = "bin"    -> << WalkItem("expr", e.l), WalkItem("expr", e.r) >>
      [] e.t = "callx"  -> << WalkItem("expr", e.callee) >> \o
                           WalkItems("expr", e.arguments)
      [] e.t = "classx" -> << WalkItem("class", e.class) >>
      [] e.t = "funcx"  -> << WalkItem("function", e.function) >>
      [] e.t = "member" -> << WalkItem("expr", e.object) >>
      [] e.t = "index"  -> << WalkItem("expr", e.object), WalkItem("expr", e.expression) >>
      [] OTHER          -> << >>

\* mapper.rs 874-893: of each declarator the pattern, then the initializer.
map_variable_declaration_calls(decl) ==
    WalkConcat([i \in 1..Len(Declarations(decl)) |->
        << WalkItem("pattern", Declarations(decl)[i].id) >> \o
        WalkOptional("expr", Declarations(decl)[i].init)])

\* mapper.rs 895-955: the properties of an object pattern are copied.
map_binding_pattern_calls(p) ==
    CASE p.t = "arrpat"    -> WalkConcat([i \in 1..Len(p.elements) |->
                                  WalkOptional("pattern", p.elements[i])])
      [] p.t = "assignpat" -> << WalkItem("pattern", p.left), WalkItem("expr", p.right) >>
      [] OTHER             -> << >>

\* mapper.rs 957-1063: the object of a member target (and the index of a
\* computed one); pattern targets are copied.
map_assignment_target_calls(target) ==
    IF target.t # "target_member" THEN << >>
    ELSE IF target.me.t = "index"
         THEN << WalkItem("expr", target.me.object),
                 WalkItem("expr", target.me.expression) >>
         ELSE << WalkItem("expr", target.me.object) >>

\* mapper.rs 1065-1108: the parameters are rebuilt as they are.
map_function_calls(func) == WalkItems("stmt", func.body)

\* mapper.rs 1110-1232: a method's function is mapped, and the result
\* mapped again; a static block is pushed as it is.
map_class_element_calls(element) ==
    CASE element.t = "method"   -> << WalkItem("function", element.value),
                                      WalkItem("function", element.value) >>
      [] element.t = "property" -> WalkOptional("expr", element.value)
      [] OTHER                  -> << >>

map_class_calls(class) ==
    WalkOptional("expr", class.super_class) \o
    WalkConcat([i \in 1..Len(class.body) |-> map_class_element_calls(class.body[i])])

\* The calls the mapper function of an item makes on the parts of its node.
MapperCalls(item) ==
    CASE item.kind = "stmt"     -> map_statement_calls(item.node)
      [] item.kind = "expr"     -> map_expression_calls(item.node)
      [] item.kind = "vardecl"  -> map_variable_declaration_calls(item.node)
      [] item.kind = "pattern"  -> map_binding_pattern_calls(item.node)
      [] item.kind = "target"   -> map_assignment_target_calls(item.node)
      [] item.kind = "function" -> map_function_calls(item.node)
      [] item.kind = "class"    -> map_class_calls(item.node)


\* The parts of a node in source order, each with the mapper function that
\* is responsible for it: the order of the ECMAScript grammar.
SourceParts(item) ==
    CASE item.kind = "stmt" /\ item.node.t = "for" ->
            (IF item.node.init = None THEN << >>
             ELSE IF item.node.init.t \in {"decl", "vardecl"}
                  THEN << WalkItem("vardecl", item.node.init) >>
                  ELSE << WalkItem("expr", item.node.init) >>) \o
            WalkOptional("expr", item.node.test) \o
            WalkOptional("expr", item.node.update) \o
            << WalkItem("stmt", item.node.stmt) >>
      [] item.kind = "stmt" /\ item.node.t = "if" ->
            << WalkItem("expr", item.node.test), WalkItem("stmt", item.node.cons) >> \o
            WalkOptional("stmt", item.node.alt)
      [] item.kind = "stmt" /\ item.node.t = "switch" ->
            << WalkItem("expr", item.node.discriminant) >> \o
            WalkConcat([i \in 1..Len(item.node.cases) |->
                WalkOptional("expr", item.node.cases[i].test) \o
                WalkItems("stmt", item.node.cases[i].consequent)])
      [] item.kind = "stmt" /\ item.node.t = "try" ->
            WalkItems("stmt", item.node.block) \o
            (IF item.node.handler = None THEN << >>
             ELSE WalkOptional("pattern", item.node.handler.param) \o
                  WalkItems("stmt", item.node.handler.body)) \o
            (IF item.node.finalizer = None THEN << >>
             ELSE WalkItems("stmt", item.node.finalizer.body))
      [] item.kind = "stmt" /\ item.node.t = "funcdecl" ->
            << WalkItem("function", item.node.function) >>
      [] item.kind = "expr" /\ item.node.t = "arrow" ->
            WalkItems("pattern", item.node.params) \o
            (IF item.node.expression THEN << WalkItem("expr", item.node.body[1].e) >>
             ELSE WalkItems("stmt", item.node.body))
      [] item.kind = "pattern" /\ item.node.t = "objpat" ->
            WalkConcat([i \in 1..Len(item.node.properties) |->
                (IF item.node.properties[i].computed
                 THEN << WalkItem("expr", item.node.properties[i].key) >> ELSE << >>) \o
                << WalkItem("pattern", item.node.properties[i].value) >>])
      [] item.kind = "function" ->
            WalkItems("pattern", item.node.params) \o WalkItems("stmt", item.node.body)
      [] item.kind = "class" ->
            WalkOptional("expr", item.node.super_class) \o
            WalkConcat([i \in 1..Len(item.node.body) |->
                CASE item.node.body[i].t = "method" ->
                        << WalkItem("function", item.node.body[i].value) >>
                  [] item.node.body[i].t = "static_block" ->
                        WalkItems("stmt", item.node.body[i].body)
                  [] OTHER -> WalkOptional("expr", item.node.body[i].value)])
      [] OTHER -> MapperCalls(item)

\* The nodes of a program in source order, a node before its parts.
RECURSIVE SourcePreorder(_)
SourcePreorderOf(item, parts) ==
    << item >> \o WalkConcat([i \in 1..Len(parts) |-> SourcePreorder(parts[i])])

SourcePreorder(item) == SourcePreorderOf(item, SourceParts(item))

\* The default values of the parameters of a function or arrow.
ParameterDefaults(params) ==
    { WalkItem("expr", params[i].right) :
        i \in { j \in 1..Len(params) : params[j].t = "assignpat" } }

\* The parts of a function or arrow that take part in the traversal: the
\* statements of its body (the expression of an expression-bodied arrow)
\* and the defaults of its parameters.
FunctionParts(item) ==
    CASE item.kind = "function" ->
            { WalkItem("stmt", item.node.body[i]) : i \in 1..Len(item.node.body) }
            \cup ParameterDefaults(item.node.params)
      [] item.kind = "expr" /\ item.node.t = "arrow" ->
            (IF item.node.expression THEN { WalkItem("expr", item.node.body[1].e) }
             ELSE { WalkItem("stmt", item.node.body[i]) : i \in 1..Len(item.node.body) })
            \cup ParameterDefaults(item.node.params)
      [] OTHER -> { }

FunctionPartsOf(order) == UNION { FunctionParts(order[i]) : i \in 1..Len(order) }

AllFunctionParts(root) == FunctionPartsOf(SourcePreorder(root))

\* The programs of the traversal: every call has its own name.
WalkCallStmt(f) == ExpressionStatement(Call(f))
WalkDefault(p, f) == AssignmentPattern(BindingIdentifier(p), Call(f))

WalkFunctions ==
    { Function(<< >>, << WalkCallStmt("a"), ReturnStatement(Call("b")) >>),
      Function(<< WalkDefault("p", "d") >>, << WalkCallStmt("a") >>),
      Function(<< BindingIdentifier("p") >>,
               << IfStatement(Call("t"), WalkCallStmt("a"), None) >>) }

WalkArrows ==
    { ArrowExpression(<< BindingIdentifier("x") >>, << WalkCallStmt("a") >>, TRUE),
      ArrowExpression(<< WalkDefault("x", "d") >>, << WalkCallStmt("a") >>, FALSE),
      ArrowExpression(<< >>, << WalkCallStmt("a"), WalkCallStmt("b") >>, FALSE) }

WalkClasses ==
    { Class(None, << MethodDefinition(f) >>) : f \in WalkFunctions } \cup
    { Class(Call("s"), << PropertyDefinition(Call("v")),
                          StaticBlock(<< WalkCallStmt("k") >>) >>),
      Class(None, << StaticBlock(<< WalkCallStmt("k") >>),
                     MethodDefinition(Function(<< >>, << WalkCallStmt("a") >>)) >>) }

WalkExpressions ==
    { FunctionExpression(f) : f \in WalkFunctions } \cup WalkArrows \cup
    { ClassExpression(c) : c \in WalkClasses } \cup
    { Binary("+", Call("l"), Call("r")) }

WalkStatements ==
    { FunctionDeclarationOf(f) : f \in WalkFunctions } \cup
    { ClassDeclaration(c) : c \in WalkClasses } \cup
    { ExpressionStatement(Assignment("f", e)) : e \in WalkExpressions } \cup
    { ForStatement(Assignment("i", Call("i")), Call("t"), Call("u"), WalkCallStmt("a")),
      ForStatement(VariableDeclaration("let", "i", Call("i")), None, Call("u"),
                   BlockStatement(<< WalkCallStmt("a") >>)),
      IfStatement(Call("t"), WalkCallStmt("a"), WalkCallStmt("b")),
      DoWhileStatement(WalkCallStmt("a"), Call("t")),
      SwitchStatement(Call("d"),
          << SwitchCase(Call("t"), << WalkCallStmt("a"), BreakStatement(NoLabel) >>),
             SwitchCase(None, << WalkCallStmt("b") >>) >>),
      TryStatement(<< WalkCallStmt("a") >>,
          CatchClause(ArrayPattern(<< WalkDefault("e", "d") >>, None),
                      << WalkCallStmt("h") >>),
          BlockStatement(<< WalkCallStmt("z") >>)),
      TryStatement(<< WalkCallStmt("a") >>,
          CatchClause(BindingIdentifier("e"), << WalkCallStmt("h") >>), None),
      ForOfStatement(VariableDeclaration("let", "x", None), Call("r"),
                     WalkCallStmt("a")),
      VariableDeclarationOf("let",
          << VariableDeclarator(ArrayPattern(<< WalkDefault("x", "d") >>, None),
                                Call("v")) >>) }

WalkPrograms ==
    { << s >> : s \in WalkStatements } \cup
    { << LabeledStatement("L", WhileStatement(Call("w"), BlockStatement(<< s >>))) >> :
        s \in WalkStatements }

\* The visitors are called on statements and expressions only.
WalkIsVisited(item) == item.kind \in {"stmt", "expr"}

\* A call of a mapper function on the part at `path` of the program.  rev
\* counts the visitors that have returned the node in this cycle.
WalkCall(item, path) ==
    [item |-> item, path |-> path,
     phase |-> IF WalkIsVisited(item) THEN "before" ELSE "children",
     v |-> 1, i |-> 1, rev |-> 0]

\* A call of visitor v in a phase on the node at path, handed over as
\* returned by rev visitors before.
WalkVisited(before, f) ==
    [before |-> before, v |-> f.v, path |-> f.path, item |-> f.item, rev |-> f.rev]

WalkRun(stack, log) == [stack |-> stack, log |-> log]
WalkTop == run.stack[Len(run.stack)]

InitWalk ==
    /\ pc = "walk"
    /\ state = InitialMapperState
    /\ input \in WalkPrograms
    /\ oracle = << >>
    /\ lowered = NoLowering
    /\ run = WalkRun(<< WalkCall(WalkItem("stmt", BlockStatement(input)), << >>) >>, << >>)

\* mapper.rs 90-103 and 359-372: the visitors are called with before = true
\* in the order of the list, each on the node the one before returned.
WalkBefore ==
    /\ pc = "walk"
    /\ WalkTop.phase = "before"
    /\ run' = WalkRun(
         [run.stack EXCEPT ![Len(run.stack)] =
            IF WalkTop.v = MaxVisitors
            THEN [WalkTop EXCEPT !.phase = "children", !.v = 1, !.rev = @ + 1]
            ELSE [WalkTop EXCEPT !.v = @ + 1, !.rev = @ + 1]],
         Append(run.log, WalkVisited(TRUE, WalkTop)))
    /\ UNCHANGED <<pc, state, input, oracle, lowered>>

\* The arm of the node calls the mapper function of its next part.
WalkDescend ==
    /\ pc = "walk"
    /\ WalkTop.phase = "children"
    /\ WalkTop.i <= Len(MapperCalls(WalkTop.item))
    /\ run' = WalkRun(
         Append(run.stack,
                WalkCall(MapperCalls(WalkTop.item)[WalkTop.i],
                         Append(WalkTop.path, WalkTop.i))),
         run.log)
    /\ UNCHANGED <<pc, state, input, oracle, lowered>>

\* The call on a part returns.
WalkAscend ==
    /\ pc = "walk"
    /\ Len(run.stack) > 1
    /\ WalkTop.phase = "done"
    /\ run' = WalkRun(
         [SubSeq(run.stack, 1, Len(run.stack) - 1)
            EXCEPT ![Len(run.stack) - 1].i = @ + 1],
         run.log)
    /\ UNCHANGED <<pc, state, input, oracle, lowered>>

\* The arm has rebuilt the node from its mapped parts.
WalkChildrenDone ==
    /\ pc = "walk"
    /\ WalkTop.phase = "children"
    /\ WalkTop.i > Len(MapperCalls(WalkTop.item))
    /\ run' = WalkRun(
         [run.stack EXCEPT ![Len(run.stack)].phase =
            IF WalkIsVisited(WalkTop.item) THEN "after" ELSE "done"],
         run.log)
    /\ UNCHANGED <<pc, state, input, oracle, lowered>>

\* mapper.rs 312-325 and 856-868: the visitors are called with
\* before = false in the order of the list.
WalkAfter ==
    /\ pc = "walk"
    /\ WalkTop.phase = "after"
    /\ run' = WalkRun(
         [run.stack EXCEPT ![Len(run.stack)] =
            IF WalkTop.v = MaxVisitors
            THEN [WalkTop EXCEPT !.phase = "done", !.rev = @ + 1]
            ELSE [WalkTop EXCEPT !.v = @ + 1, !.rev = @ + 1]],
         Append(run.log, WalkVisited(FALSE, WalkTop)))
    /\ UNCHANGED <<pc, state, input, oracle, lowered>>

\* Mapper::map returns the mapped program.
WalkProgram ==
    /\ pc = "walk"
    /\ Len(run.stack) = 1
    /\ WalkTop.phase = "done"
    /\ pc' = "done"
    /\ UNCHANGED <<state, input, oracle, lowered, run>>

NextWalk ==
    \/ WalkBefore
    \/ WalkDescend
    \/ WalkAscend
    \/ WalkChildrenDone
    \/ WalkAfter
    \/ WalkProgram

SpecWalk == InitWalk /\ [][NextWalk]_vars

\* The node is handed to a visitor with before = true.
WalkEnters(item) ==
    \E k \in 1..Len(run.log) : run.log[k].item = item /\ run.log[k].before

\* C21: when the program is mapped, the visitors have been called on every
\* statement of the body of every function declaration, function
\* expression, class method and block-bodied arrow, on the body expression
\* of every expression-bodied arrow, and on the default value of every
\* parameter of a function or arrow.
C21_FunctionPartsVisited ==
    pc = "done" =>
        \A item \in AllFunctionParts(WalkItem("stmt", BlockStatement(input))) :
            WalkEnters(item)


\* The visitors of a phase are called one after the other in the order of
\* registration, each on the node the one before returned.
WalkRegistrationOrder ==
    \A k \in 1..Len(run.log) :
        /\ run.log[k].rev = (IF run.log[k].before THEN 0 ELSE MaxVisitors) + run.log[k].v - 1
        /\ run.log[k].v > 1 =>
              /\ k > 1
              /\ run.log[k - 1] = [run.log[k] EXCEPT !.v = @ - 1, !.rev = @ - 1]

IsStrictPrefix(p, q) == Len(p) < Len(q) /\ SubSeq(q, 1, Len(p)) = p

\* The visitors with before = true are called on a node before any visitor
\* is called on a part of it, the visitors with before = false after.
WalkPhasesNested ==
    \A j, k \in 1..Len(run.log) :
        IsStrictPrefix(run.log[j].path, run.log[k].path) =>
            (run.log[j].before <=> j < k)

\* The nodes are entered in the order of the source.
WalkInSourceOrder(log, order) ==
    \A j, k \in 1..Len(log) :
        (j < k /\ log[j].before /\ log[j].v = 1 /\ log[k].before /\ log[k].v = 1) =>
            IndexOf(order, log[j].item) < IndexOf(order, log[k].item)

WalkSourceOrder ==
    WalkInSourceOrder(run.log, SourcePreorder(WalkItem("stmt", BlockStatement(input))))

\* C26: in a visit cycle without Revisit the visitors of a phase are called
\* in registration order, each on the node returned by the one before; the
\* Before visitors of a node are called before any visitor on its
\* descendants and the After visitors after all of them; and the children
\* are visited depth-first, left to right in source order.
C26_VisitOrder ==
    /\ WalkRegistrationOrder
    /\ WalkPhasesNested
    /\ WalkSourceOrder


---------------------------------------------------------------------------
(* transform_code (lib.rs) and the constructs that are not supported.  The *)
(* parser is not part of the repository: its errors are an input.  The     *)
(* mapper is entered as the tests enter it, on a program that parsed.      *)

UsingDeclaration(n)       == [t |-> "using", name |-> n]
TSEnumDeclaration(n)      == [t |-> "ts_enum", name |-> n]
PrivateInExpression(l, r) == [t |-> "private_in", l |-> l, r |-> r]
JSXElement(n)             == [t |-> "jsx", name |-> n]
\* for await (left of right) stmt: a for-of statement with r#await set.
ForAwaitOfStatement(left, right, b) ==
    [t |-> "forof", await |-> TRUE, left |-> left, right |-> right, stmt |-> b]

\* Some(x) of an Option; None is the absent value.
Some(x) == [t |-> "some", v |-> x]

TransformResult(ast, code, had_error, error_message) ==
    [transformed_ast |-> ast, transformed_code |-> code,
     had_error |-> had_error, error_message |-> error_message]

\* errors.join("\n")
RECURSIVE JoinLines(_)
JoinLines(errors) ==
    IF Len(errors) <= 1 THEN errors
    ELSE << Head(errors), "\n" >> \o JoinLines(Tail(errors))

\* lib.rs 36-155: Ok with the statement, or Err with a message.
LoopTransformer_transform_statement(stmt) ==
    CASE stmt.t = "for" ->
            IF stmt.init = None
            THEN [ok |-> TRUE,
                  stmt |-> WhileStatement(
                      IF stmt.test = None THEN BooleanLiteral(TRUE) ELSE stmt.test,
                      BlockStatement(<< stmt.stmt >> \o
                          (IF stmt.update = None THEN << >>
                           ELSE << ExpressionStatement(stmt.update) >>)))]
            ELSE IF stmt.init.t = "using"
            THEN [ok |-> FALSE, err |-> "The using syntax is not supported by this tool"]
            ELSE [ok |-> TRUE,
                  stmt |-> BlockStatement(
                    << IF stmt.init.t \in {"decl", "vardecl"} THEN stmt.init
                       ELSE ExpressionStatement(stmt.init),
                       WhileStatement(
                          IF stmt.test = None THEN BooleanLiteral(TRUE) ELSE stmt.test,
                          BlockStatement(<< stmt.stmt >> \o
                              (IF stmt.update = None THEN << >>
                               ELSE << ExpressionStatement(stmt.update) >>))) >>)]
      [] stmt.t = "dowhile" ->
            [ok |-> TRUE,
             stmt |-> BlockStatement(
                << VariableDeclaration("let", "test", BooleanLiteral(TRUE)),
                   WhileStatement(Identifier("test"),
                      BlockStatement(<< stmt.stmt,
                          ExpressionStatement(Assignment("test", stmt.test)) >>)) >>)]
      [] OTHER -> [ok |-> TRUE, stmt |-> stmt]

\* The panics of Mapper::map_statement and Mapper::map_expression on a
\* statement of the program (mapper.rs 146, 163, 178, 301-306, 840-848).
mapper_panics(stmt) ==
    \/ stmt.t \in {"using", "ts_enum"}
    \/ stmt.t = "for" /\ stmt.init # None /\ stmt.init.t = "using"
    \/ stmt.t \in {"forin", "forof"} /\ stmt.left.t = "using"
    \/ stmt.t = "expr" /\ stmt.e.t \in {"private_in", "jsx"}

\* The constructs the tool does not support.
IsUnsupported(stmt) ==
    \/ mapper_panics(stmt)
    \/ stmt.t = "forof" /\ "await" \in DOMAIN stmt

TransformStatements ==
    { ExpressionStatement(Call("a")),
      ForStatement(None, Call("t"), Call("u"), ExpressionStatement(Call("a"))),
      DoWhileStatement(ExpressionStatement(Call("a")), Call("t")),
      UsingDeclaration("x"),
      TSEnumDeclaration("E"),
      ForStatement(UsingDeclaration("x"), None, None, ExpressionStatement(Call("a"))),
      ForOfStatement(UsingDeclaration("x"), Call("r"), ExpressionStatement(Call("a"))),
      ForAwaitOfStatement(VariableDeclaration("let", "x", None), Call("r"),
                          ExpressionStatement(Call("a"))),
      ExpressionStatement(PrivateInExpression("#p", Identifier("o"))),
      ExpressionStatement(JSXElement("div")) }

MaxErrors == 2
MaxStatements == 2

ParserErrors == UNION { [1..n -> {"Unexpected token", "Unterminated string"}] : n \in 0..MaxErrors }
TransformBodies == UNION { [1..n -> TransformStatements] : n \in 0..MaxStatements }

\* The result handed back: a value (Ok with a TransformResult, or Err with
\* a message), or a panic.
ResultOk(result)  == [kind |-> "Ok", result |-> result]
ResultErr(message) == [kind |-> "Err", message |-> message]
ResultPanic       == [kind |-> "panic"]

InitTransform ==
    /\ pc = "parse"
    /\ state = InitialMapperState
    /\ input \in [entry : {"transform_code", "map"},
                  errors : ParserErrors, body : TransformBodies]
    /\ oracle = << >>
    /\ lowered = NoLowering
    /\ run = [i |-> 1, new_body |-> << >>]

\* lib.rs 165-167 and 196-210: the parser's errors are joined into the
\* message of a result with had_error set.
TransformParse ==
    /\ pc = "parse"
    /\ IF input.errors = << >>
       THEN /\ pc' = input.entry
            /\ UNCHANGED lowered
       ELSE /\ pc' = "done"
            /\ lowered' = ResultOk(TransformResult(<< >>, << >>, TRUE,
                                                   Some(JoinLines(input.errors))))
    /\ UNCHANGED <<state, input, oracle, run>>

\* lib.rs 173-176: transformer.transform_statement(stmt)?
TransformStatement ==
    /\ pc = "transform_code"
    /\ run.i <= Len(input.body)
    /\ IF LoopTransformer_transform_statement(input.body[run.i]).ok
       THEN /\ run' = [i |-> run.i + 1,
                       new_body |-> Append(run.new_body,
                          LoopTransformer_transform_statement(input.body[run.i]).stmt)]
            /\ UNCHANGED <<pc, lowered>>
       ELSE /\ pc' = "done"
            /\ lowered' = ResultErr(LoopTransformer_transform_statement(input.body[run.i]).err)
            /\ UNCHANGED run
    /\ UNCHANGED <<state, input, oracle>>

\* lib.rs 178-194: the program is printed; had_error is false.
TransformCodegen ==
    /\ pc = "transform_code"
    /\ run.i > Len(input.body)
    /\ pc' = "done"
    /\ lowered' = ResultOk(TransformResult(run.new_body, run.new_body, FALSE, None))
    /\ UNCHANGED <<state, input, oracle, run>>

\* Mapper::map on the next statement of the program: a construct that is
\* not supported ends the thread.
MapperStatement ==
    /\ pc = "map"
    /\ run.i <= Len(input.body)
    /\ IF mapper_panics(input.body[run.i])
       THEN /\ pc' = "done"
            /\ lowered' = ResultPanic
            /\ UNCHANGED run
       ELSE /\ run' = [i |-> run.i + 1, new_body |-> Append(run.new_body, input.body[run.i])]
            /\ UNCHANGED <<pc, lowered>>
    /\ UNCHANGED <<state, input, oracle>>

MapperReturns ==
    /\ pc = "map"
    /\ run.i > Len(input.body)
    /\ pc' = "done"
    /\ lowered' = ResultOk(TransformResult(run.new_body, run.new_body, FALSE, None))
    /\ UNCHANGED <<state, input, oracle, run>>

NextTransform ==
    \/ TransformParse
    \/ TransformStatement
    \/ TransformCodegen
    \/ MapperStatement
    \/ MapperReturns

SpecTransform == InitTransform /\ [][NextTransform]_vars

\* The program has parser errors or holds a construct that is not supported.
TransformFails ==
    \/ input.errors # << >>
    \/ \E i \in 1..Len(input.body) : IsUnsupported(input.body[i])

\* C24: a program with parser errors or with an unsupported construct
\* (`using`, `await` in for-of, JSX, TypeScript-only syntax, private-in)
\* ends in a result value with had_error = true, an empty transformed_code
\* and a non-empty error_message, never in a panic.
C24_FailureIsReported ==
    (pc = "done" /\ TransformFails) =>
        /\ lowered.kind = "Ok"
        /\ lowered.result.had_error
        /\ lowered.result.transformed_code = << >>
        /\ lowered.result.error_message # None
        /\ lowered.result.error_message.v # << >>

\* The part of C24 that is about parser errors: they are reported as a value.
ParserErrorsReported ==
    (pc = "done" /\ input.errors # << >>) =>
        lowered = ResultOk(TransformResult(<< >>, << >>, TRUE,
                                           Some(JoinLines(input.errors))))


\* The property read that the i-th property of the pattern stands for:
\* T.key, or T[key] for a computed key (the key itself when it is an
\* identifier, or else the name its value was put in).
VarDeclPropertyRead(i) ==
    IF ~VarDeclInput[1].id.properties[i].computed
    THEN StaticMemberExpression(Identifier(VarDeclT),
                                VarDeclInput[1].id.properties[i].key.name)
    ELSE ComputedMemberExpression(
             Identifier(VarDeclT),
             IF VarDeclInput[1].id.properties[i].key.t = "id"
             THEN VarDeclInput[1].id.properties[i].key
             ELSE Identifier(VarDeclKeyName(i)))

\* The i-th property binds an identifier with a default: `a: b = d`,
\* `[k]: b = d` or the shorthand `b = d`.
VarDeclHasDefault(i) ==
    /\ VarDeclInput[1].id.properties[i].value.t = "assignpat"
    /\ VarDeclInput[1].id.properties[i].value.left.t = "bid"

\* C29: for a property with a default whose binding is an identifier,
\* `let {a: b = d} = T` or `let {[k]: b = d} = T`, the read of the lowering
\* uses the key: `let b = T.a; if (b === undefined) b = d;`, or T[k] for a
\* computed key.
C29_DefaultReadUsesKey ==
    (pc = "done" /\ VarDeclIsObject)
    => \A i \in 1..Len(VarDeclInput[1].id.properties) :
          VarDeclHasDefault(i)
          => \E j \in 1..(Len(lowered.stmt.body) - 1) :
                /\ lowered.stmt.body[j]
                     = VariableDeclaration(
                           "let", VarDeclInput[1].id.properties[i].value.left.name,
                           VarDeclPropertyRead(i))
                /\ lowered.stmt.body[j + 1]
                     = var_decl_default(
                           VarDeclInput[1].id.properties[i].value.left.name,
                           VarDeclInput[1].id.properties[i].value.right)


\* The statements of a list, in the scope of what the ones before declare.
Statements(items) == [t |-> "statements", items |-> items]

\* The names a statement declares in the scope it is in.
DeclaredNames(s) ==
    CASE s.t = "decl"    -> { s.name }
      [] s.t = "vardecl" ->
            { BoundNamesAll([i \in 1..Len(s.declarations) |-> s.declarations[i].id])[k] :
                k \in 1..Len(BoundNamesAll(
                        [i \in 1..Len(s.declarations) |-> s.declarations[i].id])) }
      [] OTHER           -> { }

\* The names of `names` that node n reads or assigns outside the scope of a
\* declaration of them; declared holds the names declared before n in the
\* scopes around it.
RECURSIVE UndeclaredNames(_, _, _)
UndeclaredNames(n, names, declared) ==
    CASE n.t = "statements" ->
            IF n.items = << >> THEN { }
            ELSE UndeclaredNames(Head(n.items), names, declared) \cup
                 UndeclaredNames(Statements(Tail(n.items)), names,
                                 declared \cup DeclaredNames(Head(n.items)))
      [] n.t = "block"   -> UndeclaredNames(Statements(n.body), names, declared)
      [] n.t = "decl"    -> UndeclaredNames(n.init, names, declared)
      [] n.t = "vardecl" ->
            UNION { UndeclaredNames(n.declarations[i].init, names, declared) :
                      i \in 1..Len(n.declarations) }
      [] n.t = "expr"    -> UndeclaredNames(n.e, names, declared)
      [] n.t \in {"return", "throw"} -> UndeclaredNames(n.arg, names, declared)
      [] n.t = "if"      -> UndeclaredNames(n.test, names, declared) \cup
                            UndeclaredNames(n.cons, names, declared) \cup
                            UndeclaredNames(n.alt, names, declared)
      [] n.t = "while"   -> UndeclaredNames(n.test, names, declared) \cup
                            UndeclaredNames(n.stmt, names, declared)
      [] n.t = "labeled" -> UndeclaredNames(n.stmt, names, declared)
      [] n.t = "try"     ->
            UndeclaredNames(Statements(n.block), names, declared) \cup
            (IF n.handler = None THEN { }
             ELSE UndeclaredNames(Statements(n.handler.body), names, declared)) \cup
            UndeclaredNames(n.finalizer, names, declared)
      [] n.t = "id"      -> { n.name } \cap (names \ declared)
      [] n.t = "assign"  -> ({ n.name } \cap (names \ declared)) \cup
                            UndeclaredNames(n.rhs, names, declared)
      [] n.t = "assign_member" -> UndeclaredNames(n.target, names, declared) \cup
                                  UndeclaredNames(n.rhs, names, declared)
      [] n.t = "assign_pattern" -> UndeclaredNames(n.rhs, names, declared)
      [] n.t = "bin"     -> UndeclaredNames(n.l, names, declared) \cup
                            UndeclaredNames(n.r, names, declared)
      [] n.t = "member"  -> UndeclaredNames(n.object, names, declared)
      [] n.t = "index"   -> UndeclaredNames(n.object, names, declared) \cup
                            UndeclaredNames(n.expression, names, declared)
      [] n.t = "callx"   ->
            UndeclaredNames(n.callee, names, declared) \cup
            UNION { UndeclaredNames(n.arguments[i], names, declared) :
                      i \in 1..Len(n.arguments) }
      [] n.t = "array"   ->
            UNION { UndeclaredNames(n.elements[i], names, declared) :
                      i \in 1..Len(n.elements) }
      [] OTHER           -> { }

\* The names the pass has drawn.
DrawnNames == { "$zeroSugar" \o ToString(i) : i \in 0..(state.id_counter - 1) }

\* C30: every $zeroSugar<n> identifier the lowering of a for-in / for-of
\* reads or assigns is declared in a scope around it, before it; so is the
\* name N put in the header for a member or pattern target, which is
\* assigned by `N = $n.value`.
C30_DrawnNamesDeclared ==
    (pc \in {"lowered", "done"}) => UndeclaredNames(lowered.stmt, DrawnNames, { }) = { }


\* The names node n declares or uses as the label of a statement, one entry
\* per declaration or labeled statement, in source order.
RECURSIVE DeclaredOrLabelled(_)
DeclaredOrLabelled(n) ==
    CASE n.t = "statements" ->
            IF n.items = << >> THEN << >>
            ELSE DeclaredOrLabelled(Head(n.items)) \o
                 DeclaredOrLabelled(Statements(Tail(n.items)))
      [] n.t = "block"   -> DeclaredOrLabelled(Statements(n.body))
      [] n.t = "decl"    -> << n.name >>
      [] n.t = "vardecl" ->
            BoundNamesAll([i \in 1..Len(n.declarations) |-> n.declarations[i].id])
      [] n.t = "labeled" -> << n.label >> \o DeclaredOrLabelled(n.stmt)
      [] n.t = "if"      -> DeclaredOrLabelled(n.cons) \o DeclaredOrLabelled(n.alt)
      [] n.t \in {"while", "dowhile", "with"} -> DeclaredOrLabelled(n.stmt)
      [] n.t = "for"     -> DeclaredOrLabelled(n.init) \o DeclaredOrLabelled(n.stmt)
      [] n.t \in {"forin", "forof"} ->
            DeclaredOrLabelled(n.left) \o DeclaredOrLabelled(n.stmt)
      [] n.t = "try"     ->
            DeclaredOrLabelled(Statements(n.block)) \o
            (IF n.handler = None THEN << >>
             ELSE DeclaredOrLabelled(Statements(n.handler.body))) \o
            DeclaredOrLabelled(n.finalizer)
      [] n.t = "switch"  ->
            DeclaredOrLabelled(Statements(
                WalkConcat([i \in 1..Len(n.cases) |-> n.cases[i].consequent])))
      [] OTHER           -> << >>

\* Every drawn name stands for at most one declaration or label of `names`.
DrawnNamesDistinct(names) ==
    \A j, k \in 1..Len(names) :
        (j # k /\ names[j] \in DrawnNames) => names[j] # names[k]

\* The generated names and labels of the mapped program are distinct.
MappedNamesDistinct ==
    pc = "done" => DrawnNamesDistinct(DeclaredOrLabelled(lowered.stmt))

\* The counter of a step is not below the counter before it.
CounterNeverDecreases == [][state'.id_counter >= state.id_counter]_vars


\* C22: next_ident_name returns "$zeroSugar" followed by the counter and
\* adds one to the counter, and no two generated names or labels of the
\* output that stand for different declarations or labeled statements are
\* equal.
C22_FreshNamesDistinct ==
    /\ next_ident_name(state)
         = [name  |-> "$zeroSugar" \o ToString(state.id_counter),
            state |-> [state EXCEPT !.id_counter = @ + 1]]
    /\ MappedNamesDistinct


---------------------------------------------------------------------------
(* The stack of continue targets during Mapper::map.                       *)

IsContinueTarget(s) == s.t \in {"labeled", "dowhile", "for", "forin", "forof", "while"}

\* The call of map_statement is between the push and the pop of the entry
\* of its statement: the continue pass, which is the first visitor, has
\* been called with before = true and not yet with before = false.
MapHoldsTarget(f) ==
    /\ IsContinueTarget(f.stmt)
    /\ \/ f.phase = "children"
       \/ f.phase = "before" /\ f.v > 1
       \/ f.phase = "after" /\ f.v = 1

\* The entries the calls on the stack stand for, the innermost last: the
\* label of a labeled statement, "#loop" for a loop.
MapTargetsOf(frames) ==
    [i \in 1..Len(frames) |->
        IF frames[i].stmt.t = "labeled" THEN frames[i].stmt.label ELSE "#loop"]

MapTargets == MapTargetsOf(SelectSeq(run.stack, MapHoldsTarget))

\* C23: whenever a visitor is called during Mapper::map, continue_targets
\* holds one entry for every labeled statement and loop around the visited
\* node, the innermost last (and the entry of the node itself from the
\* call of the continue pass that pushes it to the one that pops it); a
\* push is matched by one pop also over a Revisit and over the replacement
\* of a loop by a block; and the stack is empty when map returns.
C23_ContinueTargetsMirrorNesting ==
    /\ pc = "map" =>
          [i \in 1..Len(state.continue_targets) |-> state.continue_targets[i].label]
            = MapTargets
    /\ pc = "done" => state.continue_targets = << >>

\* A statement whose cycle was restarted is visited again inside a loop
\* and a labeled statement, two entries on the stack.
C23_Witness ==
    /\ pc = "map"
    /\ Len(state.continue_targets) = 2
    /\ MapTop.phase = "before"
    /\ MapTop.revisits >= 1
    /\ ~IsContinueTarget(MapTop.stmt)


---------------------------------------------------------------------------
(* What is left of the lowered constructs in the mapped program.           *)

\* The statements of n, at any depth, that the passes are to lower: inside
\* blocks, loops and try statements, and also inside the functions, arrows
\* and classes of statements and expressions, static blocks and the
\* defaults of parameters included.
RECURSIVE SugarIn(_)
SugarIn(n) ==
    CASE n.t = "statements" ->
            UNION { SugarIn(n.items[i]) : i \in 1..Len(n.items) }
      [] n.t \in {"dowhile", "for", "forin", "forof"} -> { n.t } \cup SugarIn(n.stmt)
      [] n.t = "switch"   ->
            { n.t } \cup UNION { SugarIn(Statements(n.cases[i].consequent)) :
                                   i \in 1..Len(n.cases) }
      [] n.t = "continue" -> { n.t }
      [] n.t = "try"      ->
            (IF n.finalizer # None THEN { "finally" } ELSE { }) \cup
            SugarIn(Statements(n.block)) \cup
            (IF n.handler = None THEN { } ELSE SugarIn(Statements(n.handler.body))) \cup
            SugarIn(n.finalizer)
      [] n.t \in {"block", "func", "static_block"} -> SugarIn(Statements(n.body))
      [] n.t = "if"       -> SugarIn(n.cons) \cup SugarIn(n.alt)
      [] n.t \in {"while", "labeled", "with"} -> SugarIn(n.stmt)
      [] n.t = "expr"     -> SugarIn(n.e)
      [] n.t \in {"return", "throw"} -> SugarIn(n.arg)
      [] n.t = "decl"     -> SugarIn(n.init)
      [] n.t = "vardecl"  ->
            UNION { SugarIn(n.declarations[i].init) : i \in 1..Len(n.declarations) }
      [] n.t = "assign"   -> SugarIn(n.rhs)
      [] n.t \in {"funcdecl", "funcx"} -> SugarIn(n.function)
      [] n.t = "function" ->
            SugarIn(Statements(n.params)) \cup SugarIn(Statements(n.body))
      [] n.t = "arrow"    ->
            SugarIn(Statements(n.params)) \cup SugarIn(Statements(n.body))
      [] n.t = "assignpat" -> SugarIn(n.right)
      [] n.t \in {"classdecl", "classx"} -> SugarIn(n.class)
      [] n.t = "class"    -> SugarIn(n.super_class) \cup SugarIn(Statements(n.body))
      [] n.t \in {"method", "property"} -> SugarIn(n.value)
      [] OTHER            -> { }

\* C25: the mapped program holds no do-while, for, for-in, for-of, switch
\* or continue statement and no try statement with a finalizer, at any
\* position: also not in the body of a function, of a class method, of a
\* class static block or of an arrow, nor in a function expression that is
\* the default of a parameter.
C25_NoSugarLeft ==
    pc = "done" => SugarIn(lowered.stmt) = { }


---------------------------------------------------------------------------
(* Breaks whose target lies inside the protected block.                    *)

RECURSIVE LocalBreaksKept(_, _, _)
\* Every break of s whose target is declared in s (a label of locals, or
\* for an unlabeled break a loop, "#inloop") stands unchanged at the same
\* place of o.
LocalBreaksKept(s, o, locals) ==
    LET In(body, obody) ==
            /\ Len(obody) = Len(body)
            /\ \A i \in 1..Len(body) : LocalBreaksKept(body[i], obody[i], locals)
    IN
    CASE s.t = "break" ->
            (IF s.label = NoLabel THEN "#inloop" \in locals ELSE s.label \in locals)
            => o = s
      [] s.t # o.t -> s.t \in {"return", "expr", "decl", "throw", "func"}
      [] s.t = "block"   -> In(s.body, o.body)
      [] s.t = "if"      ->
            /\ LocalBreaksKept(s.cons, o.cons, locals)
            /\ (s.alt # None => LocalBreaksKept(s.alt, o.alt, locals))
      [] s.t = "while"   -> LocalBreaksKept(s.stmt, o.stmt, locals \cup {"#inloop"})
      [] s.t = "labeled" -> LocalBreaksKept(s.stmt, o.stmt, locals \cup {s.label})
      [] s.t = "with"    -> LocalBreaksKept(s.stmt, o.stmt, locals)
      [] s.t = "try"     ->
            /\ In(s.block, o.block)
            /\ (s.handler # None => In(s.handler.body, o.handler.body))
      [] OTHER -> TRUE

\* C27: a break of the try block whose target is declared inside the try
\* block (a label, or for an unlabeled break a while loop) is in the lowered
\* try block the break it was, also when the block holds a return or an
\* escaping break; and every break of the lowered statement names a label
\* that encloses it or is an unlabeled break inside a loop (the statement
\* stands in a loop inside the label A).
C27_LocalBreaksKeepTarget ==
    FinLowered
    => /\ LocalBreaksKept(BlockStatement(input.block), FinTryBlock, { })
       /\ EscapingBreaks(lowered.stmt, {"A", "#inloop"}) = { }


---------------------------------------------------------------------------
(* Abrupt completions of the user's catch handler.                         *)

\* The handler the user wrote, as it stands in the lowered statement:
\* label: try {...} catch (p) { try { handler } catch ($c) {...} }.
FinUserHandler == BlockStatement(lowered.stmt.body[3].stmt.handler.body[1].block)

\* C28: in the lowering of try/catch/finally no return and no escaping
\* break is left in the user's catch handler (they are rewritten to set the
\* action and to break to the try label); hence when the try block throws
\* and the handler returns or breaks out, the finally body runs exactly
\* once before the function returns or the target of the break is reached.
C28_HandlerAbruptRunsFinally ==
    /\ (FinLowered /\ input.handler # None)
       => /\ ~HasReturn(FinUserHandler)
          /\ EscapingBreaks(FinUserHandler, {FinTryLabel}) = { }
    /\ (pc = "done" /\ input.handler # None /\ input.finalizer = FinFinalizer
        /\ run.blk.k = "throw" /\ input.handler.body[1].t \in {"return", "break"})
       => /\ run.low.k = run.ref.k
          /\ run.low.v = run.ref.v
          /\ run.low.st.tr = run.ref.st.tr
          /\ Count(run.low.st.tr, "g") = 1

=============================================================================
